---- MODULE Spec2Model ----
(***************************************************************************)
(* A model of print-folder-contents: the opening of the output file, the   *)
(* loading of .gitignore, the directory walk and exclusion filter, the     *)
(* entry-point classifier, the prioritizer (the 7-group one of             *)
(* summarize.py and the 6-group one of print_files.py), the dependency     *)
(* analyzer with the exceptions its parsers let out, the writes of the     *)
(* report with its table of contents, the finally clause and the           *)
(* large-file truncation.                                                  *)
(*                                                                         *)
(* Paths, patterns and extensions are TLA+ strings; the Python string      *)
(* operations the code uses on them (lower, in, startswith, endswith,      *)
(* split, os.path.basename, os.path.splitext, sorted) are modelled         *)
(* character by character.                                                 *)
(***************************************************************************)
EXTENDS Integers, Sequences, FiniteSets, TLC

(***************************************************************************)
(* Python string operations                                                *)
(***************************************************************************)

\* s[i] of Python, 1-based here
Char(s, i) == SubSeq(s, i, i)

\* the characters that occur in the modelled paths, in code-point order
CharOrder ==
    " !#*-./0123456789:ABCDEFGHIJKLMNOPQRSTUVWXYZ\\_abcdefghijklmnopqrstuvwxyz"

UpperAlpha == "ABCDEFGHIJKLMNOPQRSTUVWXYZ"
LowerAlpha == "abcdefghijklmnopqrstuvwxyz"

\* ord(c), up to an order-preserving renumbering
Ord ==
    [c \in {Char(CharOrder, i) : i \in 1..Len(CharOrder)} |->
        CHOOSE i \in 1..Len(CharOrder) : Char(CharOrder, i) = c]

\* c.lower() for every character of CharOrder
LowerMap ==
    [c \in {Char(CharOrder, i) : i \in 1..Len(CharOrder)} |->
        IF \E k \in 1..26 : Char(UpperAlpha, k) = c
        THEN Char(LowerAlpha, CHOOSE k \in 1..26 : Char(UpperAlpha, k) = c)
        ELSE c]

RECURSIVE lower(_)
\* str.lower()
lower(s) ==
    IF Len(s) = 0 THEN ""
    ELSE LowerMap[Char(s, 1)] \o lower(SubSeq(s, 2, Len(s)))

\* sub in s
Contains(s, sub) ==
    \E i \in 1..(Len(s) - Len(sub) + 1) : SubSeq(s, i, i + Len(sub) - 1) = sub

\* s.startswith(p)
StartsWith(s, p) == Len(p) <= Len(s) /\ SubSeq(s, 1, Len(p)) = p

\* s.endswith(p)
EndsWith(s, p) ==
    Len(p) <= Len(s) /\ SubSeq(s, Len(s) - Len(p) + 1, Len(s)) = p

\* s.rfind(c) + 1 for a one-character c: 0 when c does not occur
rfind(s, c) ==
    LET hits == {i \in 1..Len(s) : Char(s, i) = c}
    IN  IF hits = {} THEN 0 ELSE CHOOSE i \in hits : \A j \in hits : j <= i

\* s.find(c) + 1 for a one-character c: 0 when c does not occur
find(s, c) ==
    LET hits == {i \in 1..Len(s) : Char(s, i) = c}
    IN  IF hits = {} THEN 0 ELSE CHOOSE i \in hits : \A j \in hits : i <= j

RECURSIVE split(_, _)
\* s.split(sep) for a one-character sep
split(s, sep) ==
    LET i == find(s, sep)
    IN  IF i = 0 THEN <<s>>
        ELSE <<SubSeq(s, 1, i - 1)>> \o split(SubSeq(s, i + 1, Len(s)), sep)

RECURSIVE replace(_, _, _)
\* s.replace(old, new) for a one-character old
replace(s, old, new) ==
    IF Len(s) = 0 THEN ""
    ELSE (IF Char(s, 1) = old THEN new ELSE Char(s, 1))
         \o replace(SubSeq(s, 2, Len(s)), old, new)

\* os.path.basename(p)
basename(p) == SubSeq(p, rfind(p, "/") + 1, Len(p))

\* os.path.splitext(p)[1]: the extension starts at the last dot of the
\* basename, unless only dots precede it there
splitext_ext(p) ==
    LET sepIndex == rfind(p, "/")
        dotIndex == rfind(p, ".")
    IN  IF dotIndex > sepIndex
           /\ \E k \in (sepIndex + 1)..(dotIndex - 1) : Char(p, k) # "."
        THEN SubSeq(p, dotIndex, Len(p))
        ELSE ""

RECURSIVE StrLess(_, _)
\* a < b on Python strings (code-point order)
StrLess(a, b) ==
    IF Len(b) = 0 THEN FALSE
    ELSE IF Len(a) = 0 THEN TRUE
    ELSE IF Char(a, 1) = Char(b, 1)
         THEN StrLess(SubSeq(a, 2, Len(a)), SubSeq(b, 2, Len(b)))
         ELSE Ord[Char(a, 1)] < Ord[Char(b, 1)]

RECURSIVE Insert(_, _)
Insert(x, s) ==
    IF s = <<>> THEN <<x>>
    ELSE IF StrLess(x, Head(s)) THEN <<x>> \o s
    ELSE <<Head(s)>> \o Insert(x, Tail(s))

RECURSIVE sorted(_)
\* sorted(list of strings); stable
sorted(s) == IF s = <<>> THEN <<>> ELSE Insert(s[Len(s)], sorted(SubSeq(s, 1, Len(s) - 1)))

\* x in list
InList(x, list) == \E i \in 1..Len(list) : list[i] = x

\* [f.lower() for f in list]
LowerAll(list) == [i \in 1..Len(list) |-> lower(list[i])]

Range(s) == {s[i] : i \in 1..Len(s)}

RECURSIVE fnmatch(_, _)
\* fnmatch.fnmatch(name, pat) for patterns made of literals, * and ?
fnmatch(name, pat) ==
    IF Len(pat) = 0 THEN Len(name) = 0
    ELSE IF Char(pat, 1) = "*"
         THEN \E k \in 0..Len(name) :
                 fnmatch(SubSeq(name, k + 1, Len(name)), SubSeq(pat, 2, Len(pat)))
    ELSE /\ Len(name) > 0
         /\ (Char(pat, 1) = "?" \/ Char(pat, 1) = Char(name, 1))
         /\ fnmatch(SubSeq(name, 2, Len(name)), SubSeq(pat, 2, Len(pat)))

(***************************************************************************)
(* The tables of summarize.py (print_files.py has the same                 *)
(* ALLOWED_EXTENSIONS and ENTRY_POINT_PATTERNS)                            *)
(***************************************************************************)

ALLOWED_EXTENSIONS ==
    << ".tf", ".tfvars", ".py", ".sh", ".java", ".yaml", ".yml", ".json",
       ".md", ".txt", ".kt", ".groovy", ".kts", ".gradle", ".properties",
       ".xml", ".sql", ".csv", ".ini", ".sh", ".conf", ".cfg", ".log",
       ".gitignore", ".dockerignore", ".editorconfig", ".yml.example",
       ".yaml.example", ".go", ".service", ".toml", ".proto", ".cs", ".ts",
       ".js", ".dockerfile" >>

main_files ==
    << "main.py", "app.py", "server.py", "run.py", "__main__.py",
       "index.js", "app.js", "server.js", "main.js", "Main.java",
       "Application.java", "App.java", "main.go", "cmd/main.go",
       "Program.cs", "Main.cs", "main.kt", "Application.kt" >>

config_files ==
    << "docker-compose.yml", "docker-compose.yaml", "dockerfile",
       "Dockerfile", "package.json", "pom.xml", "build.gradle",
       "requirements.txt", "pyproject.toml", "setup.py", "go.mod",
       "cargo.toml", ".env.example", "config.yaml", "config.yml",
       "settings.py" >>

startup_scripts ==
    << "start.sh", "run.sh", "startup.sh", "deploy.sh", "manage.py",
       "gradlew", "mvnw" >>

CONFIG_FILE_PATTERNS ==
    << "package.json", "pom.xml", "build.gradle", "build.gradle.kts",
       "cargo.toml", "go.mod", "pyproject.toml", "requirements.txt",
       "gemfile", "pubspec.yaml", "composer.json", "next.config.js",
       "next.config.mjs", "next.config.ts", "nuxt.config.js",
       "nuxt.config.ts", "angular.json", "vue.config.js", "vite.config.js",
       "vite.config.ts", "svelte.config.js", "webpack.config.js",
       "rollup.config.js", "snowpack.config.js", "tsconfig.json",
       "tsconfig.node.json", "jsconfig.json", ".babelrc", "babel.config.js",
       "eslint.config.js", ".eslintrc.json", ".eslintrc.js",
       "prettier.config.js", ".prettierrc", "tailwind.config.js",
       "tailwind.config.ts", "postcss.config.js", "sass.config.js",
       "jest.config.js", "vitest.config.js", "cypress.config.js",
       "playwright.config.js", "docker-compose.yml", "docker-compose.yaml",
       "dockerfile", "Dockerfile", ".dockerignore", "terraform.tf",
       "main.tf", "variables.tf", "outputs.tf", "kubernetes.yaml",
       "k8s.yaml", "helm-chart.yaml", "serverless.yml", "serverless.yaml",
       ".github/workflows/*.yml", ".github/workflows/*.yaml",
       ".gitlab-ci.yml", "azure-pipelines.yml", "jenkinsfile",
       "buildspec.yml", "appspec.yml", "cloudbuild.yaml", ".env.example",
       ".env.local", ".env.development", ".env.production", "config.json",
       "config.yaml", "config.yml", "settings.json", "settings.yaml",
       "appsettings.json", "web.config", "migrations/*.sql", "schema.sql",
       "database.yml", "prisma.schema", "sequelize.config.js",
       "android/build.gradle", "ios/Podfile", "react-native.config.js",
       "metro.config.js", "expo.json", "app.json", ".vscode/settings.json",
       ".vscode/launch.json", ".vscode/tasks.json", ".idea/",
       "workspace.xml", "makefile", "Makefile", "CMakeLists.txt",
       "configure.ac", "setup.py", "setup.cfg", "tox.ini", "pytest.ini",
       "coverage.ini", ".gitignore", ".gitattributes", "README.md",
       "readme.md", "README.rst", "CHANGELOG.md", "LICENSE", "LICENSE.md" >>

AUTO_IGNORE_PATTERNS ==
    << ".idea/", ".vscode/", ".DS_Store", "Thumbs.db", ".gradle/", "build/",
       "dist/", "out/", "META-INF/", "buildSrc/", "pkg/", ".github/",
       "venv/", ".venv/", "target/", "bin/", "obj/", "node_modules/",
       "package-lock.json", "yarn.lock", "pnpm-lock.yaml", ".next/",
       ".next-env.d.ts", "__pycache__/", ".pytest_cache/", "*.pyc",
       "coverage/", ".nyc_output/", ".coverage", "htmlcov/", "*.log",
       "*.tmp", "*.temp", ".env.local", ".env.development.local",
       ".env.production.local", ".git/", ".svn/", "vendor/", "Cargo.lock",
       "composer.lock", ".terraform/", "terraform.tfstate",
       "terraform.tfstate.backup" >>

critical_patterns ==
    << "package.json", "pom.xml", "build.gradle", "build.gradle.kts",
       "cargo.toml", "go.mod", "pyproject.toml", "requirements.txt",
       "docker-compose.yml", "docker-compose.yaml", "dockerfile",
       "Dockerfile", "next.config.js", "vite.config.js", "vite.config.ts",
       "angular.json", "tailwind.config.js", "tailwind.config.ts",
       "tsconfig.json", "jsconfig.json", ".env.example", "config.json",
       "config.yaml", "config.yml", "appsettings.json", "settings.json" >>

frameworks_map ==
    << <<"react", "React">>,
       <<"next", "Next.js">>,
       <<"vue", "Vue.js">>,
       <<"nuxt", "Nuxt.js">>,
       <<"angular", "Angular">>,
       <<"svelte", "Svelte">>,
       <<"express", "Express.js">>,
       <<"fastify", "Fastify">>,
       <<"nest", "NestJS">>,
       <<"gatsby", "Gatsby">>,
       <<"remix", "Remix">>,
       <<"electron", "Electron">>,
       <<"react-native", "React Native">>,
       <<"expo", "Expo">>,
       <<"ionic", "Ionic">>,
       <<"typescript", "TypeScript">> >>

pip_framework_patterns ==
    << <<"django", "Django">>,
       <<"flask", "Flask">>,
       <<"fastapi", "FastAPI">>,
       <<"tornado", "Tornado">>,
       <<"pyramid", "Pyramid">>,
       <<"celery", "Celery">>,
       <<"pandas", "Pandas">>,
       <<"numpy", "NumPy">>,
       <<"tensorflow", "TensorFlow">>,
       <<"pytorch", "PyTorch">>,
       <<"scikit-learn", "Scikit-learn">>,
       <<"requests", "Requests">>,
       <<"sqlalchemy", "SQLAlchemy">> >>

file_patterns ==
    << <<"Mobile App", {".swift", ".m", ".kt", ".java", ".dart"}>>,
       <<"Frontend", {".jsx", ".tsx", ".vue", ".svelte"}>>,
       <<"Backend API", {".py", ".java", ".go", ".rs", ".cs"}>>,
       <<"Shell/DevOps", {".sh", ".bash", ".zsh", ".fish"}>>,
       <<"Infrastructure", {".tf", ".yml", ".yaml"}>>,
       <<"Documentation", {".md", ".rst", ".txt"}>> >>

(***************************************************************************)
(* Bounds and inputs                                                       *)
(***************************************************************************)

\* the largest number of files of a directory tree
MaxFiles == 2

\* the largest number of newline positions of a file content
MaxNewlines == 2

\* the files a tree is made of (paths relative to the base directory)
Universe ==
    { "cmd/main.go", "web/app.js", "package.json", "web/package.json",
      "requirements.txt", "routes/config.json", "handlers/settings.py",
      "start.sh", "app.dockerfile", "src/util.py", "README.md",
      "web/node_modules/lib/util.js", "Cargo.toml", "NOTES.TXT", "pom.xml" }

\* a tree of manifests and build files whose names have no allowed
\* extension, next to files that have one
UnlistedUniverse ==
    { "go.mod", "Gemfile", "Makefile", "Dockerfile", "packages.config",
      "api/api.csproj", "package.json", "README.md" }

\* a parsed JSON object, keys to values
NoDeps == [k \in {} |-> ""]

\* the contents a package.json can have: a JSON object with its
\* dependencies and devDependencies objects, or what reading and parsing
\* it raises (undecodable JSON, undecodable bytes, a document that is no
\* JSON object)
PackageJsons ==
    { [ok |-> FALSE, error |-> "JSONDecodeError",
       dependencies |-> NoDeps, devDependencies |-> NoDeps],
      [ok |-> FALSE, error |-> "UnicodeDecodeError",
       dependencies |-> NoDeps, devDependencies |-> NoDeps],
      [ok |-> FALSE, error |-> "AttributeError",
       dependencies |-> NoDeps, devDependencies |-> NoDeps],
      [ok |-> TRUE, error |-> "",
       dependencies |-> [k \in {"react", "react-dom"} |-> "18.2.0"],
       devDependencies |-> [k \in {"typescript"} |-> "5.0.0"]],
      [ok |-> TRUE, error |-> "",
       dependencies |-> [k \in {"react-dom"} |-> "18.2.0"],
       devDependencies |-> NoDeps],
      [ok |-> TRUE, error |-> "",
       dependencies |-> [k \in {"react", "react-native"} |-> "0.72.0"],
       devDependencies |-> NoDeps],
      [ok |-> TRUE, error |-> "",
       dependencies |-> [k \in {"express"} |-> "4.18.0"],
       devDependencies |-> NoDeps] }

\* the contents a requirements.txt can have: its requirement lines as
\* name and version specifier, or undecodable bytes
RequirementsTxts ==
    { [ok |-> FALSE, error |-> "UnicodeDecodeError", dependencies |-> NoDeps],
      [ok |-> TRUE, error |-> "",
       dependencies |-> [k \in {"Flask", "requests"} |-> "==2.0"]] }

\* the contents a Cargo.toml can have, and whether a TOML library can be
\* imported: the [dependencies] table, or undecodable TOML
CargoTomls ==
    { [ok |-> TRUE, error |-> "", tomli |-> FALSE,
       dependencies |-> [k \in {"tokio"} |-> "1"]],
      [ok |-> TRUE, error |-> "", tomli |-> TRUE,
       dependencies |-> [k \in {"tokio", "serde_json"} |-> "1"]],
      [ok |-> TRUE, error |-> "", tomli |-> TRUE,
       dependencies |-> [k \in {"Tokio"} |-> "1"]],
      [ok |-> FALSE, error |-> "TOMLDecodeError", tomli |-> TRUE,
       dependencies |-> NoDeps] }

\* the contents a pom.xml can have: the groupId:artifactId keys of its
\* dependency elements, or malformed XML
MavenPoms ==
    { [ok |-> FALSE, error |-> "ParseError", dependencies |-> NoDeps],
      [ok |-> TRUE, error |-> "",
       dependencies |->
           [k \in {"org.springframework.boot:Spring-Boot-starter"} |-> "3.1.0"]] }

\* the contents of the manifests whose names have no allowed extension:
\* go.mod, Gemfile, packages.config and a .NET project file
GoMods ==
    { [ok |-> FALSE, error |-> "UnicodeDecodeError", dependencies |-> NoDeps],
      [ok |-> TRUE, error |-> "",
       dependencies |-> [k \in {"github.com/gin-gonic/gin"} |-> "v1.9.0"]] }

Gemfiles ==
    { [ok |-> FALSE, error |-> "UnicodeDecodeError", dependencies |-> NoDeps],
      [ok |-> TRUE, error |-> "", dependencies |-> [k \in {"Rails"} |-> "7.0"]] }

NugetPackages ==
    { [ok |-> FALSE, error |-> "ParseError", dependencies |-> NoDeps],
      [ok |-> TRUE, error |-> "",
       dependencies |-> [k \in {"Newtonsoft.Json"} |-> "13.0.1"]] }

DotnetProjects ==
    { [ok |-> FALSE, error |-> "ParseError", dependencies |-> NoDeps],
      [ok |-> TRUE, error |-> "",
       dependencies |-> [k \in {"Microsoft.AspNetCore.App"} |-> "8.0"]] }

\* the .gitignore of the base directory: absent, present with its lines,
\* unreadable (open raises), or in a directory that cannot be searched
\* (exists raises PermissionError)
GitignoreFiles ==
    { [stat |-> "absent", lines |-> <<>>],
      [stat |-> "present", lines |-> <<"# build", " cmd/", "", "*.sh ">>],
      [stat |-> "present",
       lines |-> <<"*.sh", "!start.sh", "web/*.js", "handlers/settings",
                   "NOTES.TXT", "/routes/">>],
      [stat |-> "unreadable", lines |-> <<"*.sh">>],
      [stat |-> "PermissionError", lines |-> <<>>] }

\* the command lines and the base directory's .gitignore: the paths the
\* --ignore-file spec matches (empty when none is given), the --ignore-ext
\* arguments as typed, the output file as a path of the tree ("" when
\* the report goes to stdout), and whether --toc is given
Invocations ==
    { [ignore_spec |-> {}, ignore_ext |-> {}, output_file |-> "",
       gitignore |-> "absent",
       toc |-> TRUE],
      [ignore_spec |-> {}, ignore_ext |-> {"MD", ".Txt"}, output_file |-> "",
       gitignore |-> "present",
       toc |-> FALSE],
      [ignore_spec |-> {"src/util.py", "web/"}, ignore_ext |-> {},
       output_file |-> "", gitignore |-> "absent",
       toc |-> TRUE],
      [ignore_spec |-> {}, ignore_ext |-> {}, output_file |-> "README.md",
       gitignore |-> "absent",
       toc |-> FALSE],
      [ignore_spec |-> {}, ignore_ext |-> {}, output_file |-> "README.md",
       gitignore |-> "PermissionError",
       toc |-> TRUE],
      [ignore_spec |-> {}, ignore_ext |-> {"json"}, output_file |-> "",
       gitignore |-> "unreadable",
       toc |-> FALSE] }

\* the files whose open can be refused
MayBeUnreadable == {"package.json", "src/util.py", "README.md"}

Scripts == {"summarize", "print_files"}

(***************************************************************************)
(* State                                                                   *)
(***************************************************************************)

VARIABLES
    script,              \* which of the two scripts runs
    tree,                \* the files under the base directory
    unreadable,          \* the files of the tree whose open is refused
    gitignore,           \* the .gitignore of the base directory
    manifest,            \* the content read from each manifest file
    ignore_spec,         \* argument of print_file_contents
    ignore_ext,          \* args.ignore_ext
    ignore_extensions,   \* argument of print_file_contents
    gitignore_patterns,  \* load_gitignore_patterns(base_path)
    output_file,         \* argument of print_file_contents
    toc,                 \* argument of print_file_contents
    output,              \* the output handle: "none", "open" or "closed"
    exception,           \* the exception that is propagating, if any
    pc,                  \* position in print_file_contents
    walk_stack,          \* directories os.walk has still to yield
    files_to_include,    \* the filtered list
    prioritized_files,   \* the priority order
    critical_config,     \* prioritize_files: the critical configuration group
    other_config,        \* prioritize_files: the remaining configuration group
    entry_points,        \* the role lists
    dependency_analysis, \* the Stack Analysis Record
    report,              \* what has been written to the output
    content,             \* smart_truncate_by_chars: the content read
    truncated            \* smart_truncate_by_chars: its result

vars ==
    << script, tree, unreadable, gitignore, manifest, ignore_spec, ignore_ext,
       ignore_extensions, gitignore_patterns, output_file, toc, output,
       exception, pc, walk_stack, files_to_include, prioritized_files, critical_config,
       other_config, entry_points, dependency_analysis, report, content,
       truncated >>

\* the arguments and the directory tree, which a run does not change
inputs ==
    << script, tree, unreadable, gitignore, ignore_spec, ignore_ext,
       ignore_extensions, output_file, toc >>

\* what prioritize_files computes
priority == << prioritized_files, critical_config, other_config, entry_points >>

\* the variables of smart_truncate_by_chars
truncation == << content, truncated >>

(***************************************************************************)
(* Exclusion filter                                                        *)
(***************************************************************************)

\* AutoIgnoreMatch with a directory pattern compared with the name of the
\* directory that holds the entry only
AutoIgnoreMatch_parent_only(normalized_path, path_parts, pattern) ==
    IF EndsWith(pattern, "/")
    THEN /\ Len(path_parts) >= 2
         /\ path_parts[Len(path_parts) - 1] = SubSeq(pattern, 1, Len(pattern) - 1)
    ELSE IF StartsWith(pattern, "*.")
    THEN EndsWith(normalized_path, SubSeq(pattern, 2, Len(pattern)))
    ELSE path_parts[Len(path_parts)] = pattern

\* one pattern of AUTO_IGNORE_PATTERNS against a path
AutoIgnoreMatch(normalized_path, path_parts, pattern) ==
    IF EndsWith(pattern, "/")
    THEN InList(SubSeq(pattern, 1, Len(pattern) - 1), path_parts)
    ELSE IF StartsWith(pattern, "*.")
    THEN EndsWith(normalized_path, SubSeq(pattern, 2, Len(pattern)))
    ELSE path_parts[Len(path_parts)] = pattern

\* should_auto_ignore with the directory names compared with the first
\* segment of the path only
should_auto_ignore_first_segment(file_path) ==
    LET normalized_path == replace(file_path, "\\", "/")
        path_parts == split(normalized_path, "/")
    IN  \E k \in 1..Len(AUTO_IGNORE_PATTERNS) :
            AutoIgnoreMatch(normalized_path, <<path_parts[1], path_parts[Len(path_parts)]>>,
                            AUTO_IGNORE_PATTERNS[k])

should_auto_ignore(file_path) ==
    LET normalized_path == replace(file_path, "\\", "/")
        path_parts == split(normalized_path, "/")
    IN  \E k \in 1..Len(AUTO_IGNORE_PATTERNS) :
            AutoIgnoreMatch(normalized_path, path_parts, AUTO_IGNORE_PATTERNS[k])

matches_gitignore_pattern(file_path0, pattern0) ==
    LET file_path == replace(file_path0, "\\", "/")
        pattern == replace(pattern0, "\\", "/")
        filename == basename(file_path)
    IN  IF EndsWith(pattern, "/")
        THEN Contains("/" \o file_path, "/" \o pattern)
             \/ StartsWith(file_path, pattern)
        ELSE IF Contains(pattern, "*")
        THEN IF ~Contains(pattern, "/")
             THEN fnmatch(filename, pattern)
             ELSE fnmatch(file_path, pattern)
        ELSE IF Contains(pattern, "/")
        THEN Contains(file_path, pattern)
        ELSE filename = pattern

\* matches_gitignore with a pattern that begins with ! taking back the
\* match of the other patterns
matches_gitignore_with_negation(file_path, patterns) ==
    /\ \E i \in 1..Len(patterns) :
          /\ ~StartsWith(patterns[i], "!")
          /\ matches_gitignore_pattern(file_path, patterns[i])
    /\ ~\E i \in 1..Len(patterns) :
          /\ StartsWith(patterns[i], "!")
          /\ matches_gitignore_pattern(file_path,
                                       SubSeq(patterns[i], 2, Len(patterns[i])))

matches_gitignore(file_path, patterns) ==
    \E k \in 1..Len(patterns) : matches_gitignore_pattern(file_path, patterns[k])

RECURSIVE lstrip(_)
\* s.lstrip() for the one whitespace character of the modelled lines
lstrip(s) == IF StartsWith(s, " ") THEN lstrip(SubSeq(s, 2, Len(s))) ELSE s

RECURSIVE rstrip(_)
rstrip(s) == IF EndsWith(s, " ") THEN rstrip(SubSeq(s, 1, Len(s) - 1)) ELSE s

\* s.strip()
strip(s) == rstrip(lstrip(s))

\* load_gitignore_patterns(base_path), once gitignore_path.exists() has
\* returned: the stripped lines that are neither blank nor comments, and
\* no pattern when there is no file or when reading it fails
load_gitignore_patterns(file) ==
    IF file.stat = "present"
    THEN LET stripped == [i \in 1..Len(file.lines) |-> strip(file.lines[i])]
             IsPattern(line) == line # "" /\ ~StartsWith(line, "#")
         IN  SelectSeq(stripped, IsPattern)
    ELSE <<>>

\* the normalization of args.ignore_ext without the lower-casing
normalize_ignore_ext_as_typed(args) ==
    {IF StartsWith(ext, ".") THEN ext ELSE "." \o ext : ext \in args}

\* the normalization of args.ignore_ext in __main__
normalize_ignore_ext(args) ==
    LET lowered == {lower(ext) : ext \in args}
    IN  {IF StartsWith(ext, ".") THEN ext ELSE "." \o ext : ext \in lowered}

(***************************************************************************)
(* The directory tree as os.walk sees it                                   *)
(***************************************************************************)

\* the directory of a relative path, "." for the base directory
Parent(p) == IF rfind(p, "/") = 0 THEN "." ELSE SubSeq(p, 1, rfind(p, "/") - 1)

RECURSIVE Ancestors(_)
Ancestors(p) == IF Parent(p) = "." THEN {"."} ELSE {Parent(p)} \cup Ancestors(Parent(p))

AllDirs(t) == UNION {Ancestors(p) : p \in t}

\* the file names and the sub-directories os.walk yields for a directory
FilesIn(t, root) == {basename(p) : p \in {q \in t : Parent(q) = root}}
DirsIn(t, root) == {d \in AllDirs(t) \ {"."} : Parent(d) = root}

\* the orders in which a directory listing can come
Perms(S) ==
    {f \in [1..Cardinality(S) -> S] : \A i, j \in 1..Cardinality(S) : f[i] = f[j] => i = j}

\* os.path.relpath(os.path.join(root, file), base_path)
RelPath(root, file) == IF root = "." THEN file ELSE root \o "/" \o file

\* IncludeFile without the check of the .gitignore patterns
IncludeFile_without_gitignore(root, file) ==
    LET ext == lower(splitext_ext(file))
        relative_path == RelPath(root, file)
    IN  /\ InList(ext, ALLOWED_EXTENSIONS)
        /\ ext \notin ignore_extensions
        /\ relative_path \notin ignore_spec
        /\ ~(output_file # "" /\ relative_path = output_file)
        /\ ~should_auto_ignore(relative_path)

\* IncludeFile without the check of the extension against
\* ALLOWED_EXTENSIONS
IncludeFile_without_extension_check(root, file) ==
    LET ext == lower(splitext_ext(file))
        relative_path == RelPath(root, file)
    IN  /\ ext \notin ignore_extensions
        /\ relative_path \notin ignore_spec
        /\ ~(output_file # "" /\ relative_path = output_file)
        /\ ~should_auto_ignore(relative_path)
        /\ ~(gitignore_patterns # <<>>
             /\ matches_gitignore(relative_path, gitignore_patterns))

\* the body of the loop over the files of one directory, summarize.py
IncludeFile(root, file) ==
    LET ext == lower(splitext_ext(file))
        relative_path == RelPath(root, file)
    IN  /\ InList(ext, ALLOWED_EXTENSIONS)
        /\ ext \notin ignore_extensions
        /\ relative_path \notin ignore_spec
        /\ ~(output_file # "" /\ relative_path = output_file)
        /\ ~should_auto_ignore(relative_path)
        /\ ~(gitignore_patterns # <<>>
             /\ matches_gitignore(relative_path, gitignore_patterns))

\* pf_IncludeFile without the check against the output file
pf_IncludeFile_with_output_file(root, file) ==
    LET ext == lower(splitext_ext(file))
        relative_path == RelPath(root, file)
    IN  /\ InList(ext, ALLOWED_EXTENSIONS)
        /\ ext \notin ignore_extensions
        /\ relative_path \notin ignore_spec

\* the body of the loop over the files of one directory, print_files.py
pf_IncludeFile(root, file) ==
    LET ext == lower(splitext_ext(file))
        relative_path == RelPath(root, file)
    IN  /\ InList(ext, ALLOWED_EXTENSIONS)
        /\ ext \notin ignore_extensions
        /\ relative_path \notin ignore_spec
        /\ ~(output_file # "" /\ relative_path = output_file)

\* Included with the files that cannot be opened left out
Included_readable_only(root, files) ==
    LET Keep(file) == IncludeFile(root, file) /\ RelPath(root, file) \notin unreadable
        kept == SelectSeq(files, Keep)
    IN  [i \in 1..Len(kept) |-> RelPath(root, kept[i])]

\* the relative paths one directory adds to files_to_include
Included(root, files) ==
    LET Keep(file) == IncludeFile(root, file)
        kept == SelectSeq(files, Keep)
    IN  [i \in 1..Len(kept) |-> RelPath(root, kept[i])]

pf_Included(root, files) ==
    LET Keep(file) == pf_IncludeFile(root, file)
        kept == SelectSeq(files, Keep)
    IN  [i \in 1..Len(kept) |-> RelPath(root, kept[i])]

(***************************************************************************)
(* Entry-point classifier                                                  *)
(***************************************************************************)

main_files_lower == LowerAll(main_files)
config_files_lower == LowerAll(config_files)
startup_scripts_lower == LowerAll(startup_scripts)

NoEntryPoints ==
    [main_entry |-> <<>>, config_entry |-> <<>>, startup_scripts |-> <<>>,
     api_routes |-> <<>>, other_important |-> <<>>]

\* ClassifyFile with the route check made before the configuration-name
\* check
ClassifyFile_route_first(ep, file_path) ==
    LET filename == lower(basename(file_path))
    IN  IF InList(filename, main_files_lower)
        THEN [ep EXCEPT !.main_entry = Append(@, file_path)]
        ELSE IF \E pattern \in {"route", "controller", "handler", "endpoint"} :
                    Contains(lower(file_path), pattern)
        THEN [ep EXCEPT !.api_routes = Append(@, file_path)]
        ELSE IF InList(filename, config_files_lower)
        THEN [ep EXCEPT !.config_entry = Append(@, file_path)]
        ELSE IF InList(filename, startup_scripts_lower)
        THEN [ep EXCEPT !.startup_scripts = Append(@, file_path)]
        ELSE IF \E pattern \in {"makefile", "jenkinsfile", "dockerfile"} :
                    Contains(filename, pattern)
        THEN [ep EXCEPT !.other_important = Append(@, file_path)]
        ELSE ep

\* the body of the loop of detect_entry_points
ClassifyFile(ep, file_path) ==
    LET filename == lower(basename(file_path))
    IN  IF InList(filename, main_files_lower)
        THEN [ep EXCEPT !.main_entry = Append(@, file_path)]
        ELSE IF InList(filename, config_files_lower)
        THEN [ep EXCEPT !.config_entry = Append(@, file_path)]
        ELSE IF InList(filename, startup_scripts_lower)
        THEN [ep EXCEPT !.startup_scripts = Append(@, file_path)]
        ELSE IF \E pattern \in {"route", "controller", "handler", "endpoint"} :
                    Contains(lower(file_path), pattern)
        THEN [ep EXCEPT !.api_routes = Append(@, file_path)]
        ELSE IF \E pattern \in {"makefile", "jenkinsfile", "dockerfile"} :
                    Contains(filename, pattern)
        THEN [ep EXCEPT !.other_important = Append(@, file_path)]
        ELSE ep

RECURSIVE ClassifyAll(_, _)
ClassifyAll(ep, files) ==
    IF files = <<>> THEN ep
    ELSE ClassifyAll(ClassifyFile(ep, Head(files)), Tail(files))

detect_entry_points(files) == ClassifyAll(NoEntryPoints, files)

(***************************************************************************)
(* Prioritizer                                                             *)
(***************************************************************************)

critical_patterns_lower == LowerAll(critical_patterns)

\* the inner loop of detect_critical_config_files: the first file, in
\* list order, whose lower-cased basename is the pattern
FirstNamed(files, filenames, pattern_lower) ==
    LET hits == {i \in 1..Len(files) : filenames[i] = pattern_lower}
    IN  IF hits = {} THEN <<>>
        ELSE <<files[CHOOSE i \in hits : \A j \in hits : i <= j]>>

RECURSIVE CriticalFrom(_, _, _)
CriticalFrom(files, filenames, k) ==
    IF k > Len(critical_patterns_lower) THEN <<>>
    ELSE FirstNamed(files, filenames, critical_patterns_lower[k])
         \o CriticalFrom(files, filenames, k + 1)

\* detect_critical_config_files with the two loops exchanged: the files
\* with a critical name, in list order
detect_critical_config_files_in_list_order(files) ==
    LET IsCritical(f) == InList(lower(basename(f)), critical_patterns_lower)
    IN  SelectSeq(files, IsCritical)

detect_critical_config_files(files) ==
    CriticalFrom(files, [i \in 1..Len(files) |-> lower(basename(files[i]))], 1)

CONFIG_FILE_PATTERNS_lower == LowerAll(CONFIG_FILE_PATTERNS)

\* '*' in pattern_lower, for each pattern of CONFIG_FILE_PATTERNS
CONFIG_FILE_PATTERNS_wildcard ==
    [k \in 1..Len(CONFIG_FILE_PATTERNS_lower) |->
        Contains(CONFIG_FILE_PATTERNS_lower[k], "*")]

\* the k-th pattern of CONFIG_FILE_PATTERNS against a file
ConfigPatternMatch(filename, filepath_lower, k) ==
    LET pattern_lower == CONFIG_FILE_PATTERNS_lower[k]
    IN  IF CONFIG_FILE_PATTERNS_wildcard[k]
        THEN LET pattern_parts == split(pattern_lower, "*")
             IN  /\ Len(pattern_parts) = 2
                 /\ StartsWith(filepath_lower, pattern_parts[1])
                 /\ EndsWith(filepath_lower, pattern_parts[2])
        ELSE IF EndsWith(pattern_lower, "/")
        THEN Contains(filepath_lower, SubSeq(pattern_lower, 1, Len(pattern_lower) - 1))
        ELSE filename = pattern_lower

\* the loop over CONFIG_FILE_PATTERNS, left at the first match
IsConfigFile(file_path) ==
    LET filename == lower(basename(file_path))
        filepath_lower == lower(file_path)
    IN  \E k \in 1..Len(CONFIG_FILE_PATTERNS_lower) :
            ConfigPatternMatch(filename, filepath_lower, k)

\* detect_other_config_files passing over every file whose name is the
\* name of a file already added
detect_other_config_files_new_names_only(files, already_added) ==
    LET Added(file_path) ==
            \E i \in 1..Len(already_added) :
                lower(basename(already_added[i])) = lower(basename(file_path))
        Keep(file_path) == ~Added(file_path) /\ IsConfigFile(file_path)
    IN  SelectSeq(files, Keep)

detect_other_config_files(files, already_added) ==
    LET Keep(file_path) == ~InList(file_path, already_added) /\ IsConfigFile(file_path)
    IN  SelectSeq(files, Keep)

\* prioritize_files without its last group
prioritize_files_without_remaining(files) ==
    LET eps == detect_entry_points(files)
        critical == detect_critical_config_files(files)
        other == detect_other_config_files(files, critical)
        placed == eps.main_entry \o critical \o other
                  \o eps.startup_scripts \o eps.api_routes \o eps.other_important
    IN  [prioritized |-> placed, entry_points |-> eps,
         critical_config |-> critical, other_config |-> other]

\* prioritize_files with the critical configuration group placed first
prioritize_files_config_first(files) ==
    LET eps == detect_entry_points(files)
        critical == detect_critical_config_files(files)
        other == detect_other_config_files(files, critical)
        placed == critical \o eps.main_entry \o other
                  \o eps.startup_scripts \o eps.api_routes \o eps.other_important
        NotPlaced(f) == ~InList(f, placed)
        remaining == SelectSeq(files, NotPlaced)
    IN  [prioritized |-> placed \o sorted(remaining), entry_points |-> eps,
         critical_config |-> critical, other_config |-> other]

\* prioritize_files of summarize.py: the priority order and the role
\* lists it returns, with its two configuration groups
\* prioritize_files with each group sorted by path
prioritize_files_sorted_groups(files) ==
    LET eps == detect_entry_points(files)
        critical == detect_critical_config_files(files)
        other == detect_other_config_files(files, critical)
        placed == sorted(eps.main_entry) \o sorted(critical) \o sorted(other)
                  \o sorted(eps.startup_scripts) \o sorted(eps.api_routes)
                  \o sorted(eps.other_important)
        NotPlaced(f) == ~InList(f, placed)
        remaining == SelectSeq(files, NotPlaced)
    IN  [prioritized |-> placed \o sorted(remaining),
         entry_points |-> [eps EXCEPT !.main_entry = sorted(@)],
         critical_config |-> sorted(critical), other_config |-> sorted(other)]

\* prioritize_files with the startup scripts in front of the main entry
\* points
prioritize_files_startup_first(files) ==
    LET eps == detect_entry_points(files)
        critical == detect_critical_config_files(files)
        other == detect_other_config_files(files, critical)
        placed == eps.startup_scripts \o eps.main_entry \o critical \o other
                  \o eps.api_routes \o eps.other_important
        NotPlaced(f) == ~InList(f, placed)
        remaining == SelectSeq(files, NotPlaced)
    IN  [prioritized |-> placed \o sorted(remaining), entry_points |-> eps,
         critical_config |-> critical, other_config |-> other]

prioritize_files(files) ==
    LET eps == detect_entry_points(files)
        critical == detect_critical_config_files(files)
        other == detect_other_config_files(files, critical)
        placed == eps.main_entry \o critical \o other
                  \o eps.startup_scripts \o eps.api_routes \o eps.other_important
        NotPlaced(f) == ~InList(f, placed)
        remaining == SelectSeq(files, NotPlaced)
    IN  [prioritized |-> placed \o sorted(remaining), entry_points |-> eps,
         critical_config |-> critical, other_config |-> other]

\* prioritize_files of print_files.py
\* the prioritize_files of print_files.py with the remaining files left in
\* discovery order
pf_prioritize_files_rest_unsorted(files) ==
    LET eps == detect_entry_points(files)
        placed == eps.main_entry \o eps.config_entry \o eps.startup_scripts
                  \o eps.api_routes \o eps.other_important
        NotPlaced(f) == ~InList(f, placed)
        remaining == SelectSeq(files, NotPlaced)
    IN  [prioritized |-> placed \o remaining, entry_points |-> eps,
         critical_config |-> <<>>, other_config |-> <<>>]

\* the prioritize_files of print_files.py with every file among the
\* remaining ones, placed or not
pf_prioritize_files_rest_unfiltered(files) ==
    LET eps == detect_entry_points(files)
        placed == eps.main_entry \o eps.config_entry \o eps.startup_scripts
                  \o eps.api_routes \o eps.other_important
    IN  [prioritized |-> placed \o sorted(files), entry_points |-> eps,
         critical_config |-> <<>>, other_config |-> <<>>]

pf_prioritize_files(files) ==
    LET eps == detect_entry_points(files)
        placed == eps.main_entry \o eps.config_entry \o eps.startup_scripts
                  \o eps.api_routes \o eps.other_important
        NotPlaced(f) == ~InList(f, placed)
        remaining == SelectSeq(files, NotPlaced)
    IN  [prioritized |-> placed \o sorted(remaining), entry_points |-> eps,
         critical_config |-> <<>>, other_config |-> <<>>]

(***************************************************************************)
(* Dependency and stack analyzer                                           *)
(***************************************************************************)

NoAnalysis ==
    [project_types |-> {}, frameworks |-> {}, languages |-> {},
     dependencies |-> [pm \in {} |-> NoDeps], package_managers |-> {},
     build_tools |-> {}, key_files |-> <<>>]

\* d.update(e)
DictUpdate(d, e) ==
    [k \in (DOMAIN d) \cup (DOMAIN e) |-> IF k \in DOMAIN e THEN e[k] ELSE d[k]]

\* d[key] = value
DictSet(d, key, value) ==
    [k \in (DOMAIN d) \cup {key} |-> IF k = key THEN value ELSE d[k]]

\* the frameworks of a table whose pattern is a substring of the
\* lower-cased name of some dependency
FrameworksOf(table, names) ==
    {table[i][2] : i \in {j \in 1..Len(table) :
                            \E dep \in names : Contains(lower(dep), table[j][1])}}

\* the frameworks of a table whose pattern is a substring of the name of
\* some dependency, as written
FrameworksOfCased(table, names) ==
    {table[i][2] : i \in {j \in 1..Len(table) :
                            \E dep \in names : Contains(dep, table[j][1])}}

\* what opening and parsing a manifest raises, "" when it parses
ReadError(file_path, data) ==
    IF file_path \in unreadable THEN "PermissionError" ELSE data.error

\* the exceptions the except clause of each parser names
package_json_caught == {"JSONDecodeError", "FileNotFoundError", "UnicodeDecodeError"}
requirements_txt_caught == {"FileNotFoundError", "UnicodeDecodeError"}
cargo_toml_caught == {"FileNotFoundError", "UnicodeDecodeError"}

\* analyze_package_json with the frameworks found by the equality of a
\* dependency name and a table pattern
analyze_package_json_equal_names(file_path, analysis, data) ==
    IF ReadError(file_path, data) # "" THEN analysis
    ELSE
    LET all_deps == DictUpdate(DictUpdate(NoDeps, data.dependencies),
                               data.devDependencies)
        project_type ==
            IF \E dep \in {"react-native", "expo"} : dep \in DOMAIN all_deps
            THEN {"Mobile App"}
            ELSE IF \E dep \in {"react", "vue", "angular", "svelte"} :
                        dep \in DOMAIN all_deps
            THEN {"Frontend"}
            ELSE IF \E dep \in {"express", "fastify", "nest"} :
                        dep \in DOMAIN all_deps
            THEN {"Backend API"}
            ELSE {}
    IN  [analysis EXCEPT
            !.package_managers = @ \cup {"npm/yarn"},
            !.languages = @ \cup {"JavaScript"},
            !.key_files = Append(@, basename(file_path)),
            !.dependencies = DictSet(@, "npm", all_deps),
            !.frameworks = @ \cup {frameworks_map[i][2] : i \in
                                    {j \in 1..Len(frameworks_map) :
                                        frameworks_map[j][1] \in DOMAIN all_deps}},
            !.project_types = @ \cup project_type]

analyze_package_json(file_path, analysis, data) ==
    IF ReadError(file_path, data) # "" THEN analysis
    ELSE
    LET all_deps == DictUpdate(DictUpdate(NoDeps, data.dependencies),
                               data.devDependencies)
        project_type ==
            IF \E dep \in {"react-native", "expo"} : dep \in DOMAIN all_deps
            THEN {"Mobile App"}
            ELSE IF \E dep \in {"react", "vue", "angular", "svelte"} :
                        dep \in DOMAIN all_deps
            THEN {"Frontend"}
            ELSE IF \E dep \in {"express", "fastify", "nest"} :
                        dep \in DOMAIN all_deps
            THEN {"Backend API"}
            ELSE {}
    IN  [analysis EXCEPT
            !.package_managers = @ \cup {"npm/yarn"},
            !.languages = @ \cup {"JavaScript"},
            !.key_files = Append(@, basename(file_path)),
            !.dependencies = DictSet(@, "npm", all_deps),
            !.frameworks = @ \cup FrameworksOf(frameworks_map, DOMAIN all_deps),
            !.project_types = @ \cup project_type]

analyze_requirements_txt(file_path, analysis, data) ==
    IF ReadError(file_path, data) # "" THEN analysis
    ELSE
    LET deps == [k \in {lower(n) : n \in DOMAIN data.dependencies} |->
                    data.dependencies[CHOOSE n \in DOMAIN data.dependencies :
                                          lower(n) = k]]
        frameworks == analysis.frameworks
                      \cup FrameworksOf(pip_framework_patterns, DOMAIN deps)
        project_type ==
            IF \E fw \in {"Django", "Flask", "FastAPI"} : fw \in frameworks
            THEN {"Backend API"}
            ELSE IF \E fw \in {"TensorFlow", "PyTorch", "Scikit-learn"} :
                        fw \in frameworks
            THEN {"Machine Learning"}
            ELSE {}
    IN  [analysis EXCEPT
            !.package_managers = @ \cup {"pip"},
            !.languages = @ \cup {"Python"},
            !.key_files = Append(@, "requirements.txt"),
            !.dependencies = DictSet(@, "pip", deps),
            !.frameworks = frameworks,
            !.project_types = @ \cup project_type]

\* framework_patterns of analyze_cargo_toml
cargo_framework_patterns ==
    << <<"actix-web", "Actix Web">>, <<"warp", "Warp">>, <<"rocket", "Rocket">>,
       <<"axum", "Axum">>, <<"tokio", "Tokio">>, <<"serde", "Serde">>,
       <<"diesel", "Diesel">> >>

analyze_cargo_toml(file_path, analysis, data) ==
    IF ~data.tomli THEN analysis
    ELSE IF ReadError(file_path, data) # "" THEN analysis
    ELSE [analysis EXCEPT
            !.package_managers = @ \cup {"Cargo"},
            !.languages = @ \cup {"Rust"},
            !.key_files = Append(@, "Cargo.toml"),
            !.project_types = @ \cup {"Rust Application"},
            !.dependencies = DictSet(@, "cargo", data.dependencies),
            !.frameworks = @ \cup FrameworksOfCased(cargo_framework_patterns,
                                                    DOMAIN data.dependencies)]

\* framework_patterns of analyze_maven_pom
maven_framework_patterns ==
    << <<"spring", "Spring Framework">>, <<"spring-boot", "Spring Boot">>,
       <<"quarkus", "Quarkus">>, <<"micronaut", "Micronaut">>,
       <<"junit", "JUnit">>, <<"hibernate", "Hibernate">>,
       <<"jackson", "Jackson">>, <<"apache-kafka", "Apache Kafka">>,
       <<"vertx", "Vert.x">> >>

maven_pom_caught == {"ParseError", "FileNotFoundError", "UnicodeDecodeError"}

\* analyze_maven_pom with the package manager, the language and the key
\* file recorded before the document is parsed
analyze_maven_pom_record_first(file_path, analysis, data) ==
    IF ReadError(file_path, data) # ""
    THEN [analysis EXCEPT
            !.package_managers = @ \cup {"Maven"},
            !.languages = @ \cup {"Java"},
            !.key_files = Append(@, "pom.xml")]
    ELSE [analysis EXCEPT
            !.package_managers = @ \cup {"Maven"},
            !.languages = @ \cup {"Java"},
            !.key_files = Append(@, "pom.xml"),
            !.dependencies = DictSet(@, "maven", data.dependencies),
            !.frameworks = @ \cup FrameworksOf(maven_framework_patterns,
                                               DOMAIN data.dependencies),
            !.project_types = @ \cup {"Java Application"}]

analyze_maven_pom(file_path, analysis, data) ==
    IF ReadError(file_path, data) # "" THEN analysis
    ELSE [analysis EXCEPT
            !.package_managers = @ \cup {"Maven"},
            !.languages = @ \cup {"Java"},
            !.key_files = Append(@, "pom.xml"),
            !.dependencies = DictSet(@, "maven", data.dependencies),
            !.frameworks = @ \cup FrameworksOf(maven_framework_patterns,
                                               DOMAIN data.dependencies),
            !.project_types = @ \cup {"Java Application"}]

\* framework_patterns of analyze_go_mod
go_framework_patterns ==
    << <<"gin-gonic/gin", "Gin">>, <<"gorilla/mux", "Gorilla Mux">>,
       <<"echo", "Echo">>, <<"fiber", "Fiber">>,
       <<"kubernetes", "Kubernetes">>, <<"grpc", "gRPC">> >>

go_mod_caught == {"FileNotFoundError", "UnicodeDecodeError"}

analyze_go_mod(file_path, analysis, data) ==
    IF ReadError(file_path, data) # "" THEN analysis
    ELSE [analysis EXCEPT
            !.package_managers = @ \cup {"Go Modules"},
            !.languages = @ \cup {"Go"},
            !.key_files = Append(@, "go.mod"),
            !.project_types = @ \cup {"Go Application"},
            !.dependencies = DictSet(@, "go", data.dependencies),
            !.frameworks = @ \cup FrameworksOfCased(go_framework_patterns,
                                                    DOMAIN data.dependencies)]

\* framework_patterns of analyze_dotnet_project
dotnet_framework_patterns ==
    << <<"Microsoft.AspNetCore", "ASP.NET Core">>,
       <<"Microsoft.EntityFrameworkCore", "Entity Framework Core">>,
       <<"Xamarin", "Xamarin">>, <<"Microsoft.Maui", "MAUI">>,
       <<"Blazor", "Blazor">> >>

dotnet_caught == {"ParseError", "FileNotFoundError", "UnicodeDecodeError"}

analyze_dotnet_project(file_path, analysis, data) ==
    IF ReadError(file_path, data) # "" THEN analysis
    ELSE [analysis EXCEPT
            !.package_managers = @ \cup {"NuGet"},
            !.languages = @ \cup {"C#/.NET"},
            !.project_types = @ \cup {".NET Application"},
            !.dependencies = DictSet(@, "nuget", data.dependencies),
            !.frameworks = @ \cup FrameworksOfCased(dotnet_framework_patterns,
                                                    DOMAIN data.dependencies)]

\* framework_patterns of analyze_nuget_packages
nuget_framework_patterns ==
    << <<"Microsoft.AspNetCore", "ASP.NET Core">>,
       <<"Microsoft.EntityFrameworkCore", "Entity Framework Core">>,
       <<"Newtonsoft.Json", "JSON.NET">>, <<"NUnit", "NUnit">>,
       <<"xunit", "xUnit">> >>

analyze_nuget_packages(file_path, analysis, data) ==
    IF ReadError(file_path, data) # "" THEN analysis
    ELSE [analysis EXCEPT
            !.package_managers = @ \cup {"NuGet"},
            !.languages = @ \cup {"C#/.NET"},
            !.key_files = Append(@, "packages.config"),
            !.dependencies = DictSet(@, "nuget", data.dependencies),
            !.frameworks = @ \cup FrameworksOfCased(nuget_framework_patterns,
                                                    DOMAIN data.dependencies)]

\* framework_patterns of analyze_gemfile
gem_framework_patterns ==
    << <<"rails", "Ruby on Rails">>, <<"sinatra", "Sinatra">>,
       <<"rack", "Rack">>, <<"rspec", "RSpec">>, <<"minitest", "MiniTest">>,
       <<"devise", "Devise">>, <<"activerecord", "ActiveRecord">> >>

gemfile_caught == {"FileNotFoundError", "UnicodeDecodeError"}

analyze_gemfile(file_path, analysis, data) ==
    IF ReadError(file_path, data) # "" THEN analysis
    ELSE
    LET frameworks == analysis.frameworks
                      \cup FrameworksOf(gem_framework_patterns,
                                        DOMAIN data.dependencies)
    IN  [analysis EXCEPT
            !.package_managers = @ \cup {"Bundler"},
            !.languages = @ \cup {"Ruby"},
            !.key_files = Append(@, "Gemfile"),
            !.project_types = @ \cup {"Ruby Application"}
                                \cup (IF "rails" \in frameworks
                                      THEN {"Web Application"} ELSE {}),
            !.dependencies = DictSet(@, "bundler", data.dependencies),
            !.frameworks = frameworks]

analyze_makefile(file_path, analysis) ==
    [analysis EXCEPT !.build_tools = @ \cup {"Make"}]

\* the manifest names analyze_dependencies hands to the parsers of the
\* other ecosystems; no modelled tree holds one
OtherEcosystem(filename, file_path) ==
    filename \in {"build.gradle", "build.gradle.kts", "pyproject.toml",
                  "pubspec.yaml", "podfile", "package.swift", "cmakelists.txt"}

IsDotnetProject(filename, file_path) ==
    \/ filename \in {"*.csproj", "*.fsproj", "*.vbproj"}
    \/ \E e \in {".csproj", ".fsproj", ".vbproj"} : EndsWith(file_path, e)

\* the body of the loop of analyze_dependencies
AnalyzeFile(analysis, file_path, contents) ==
    LET filename == lower(basename(file_path))
    IN  IF filename = "package.json"
        THEN analyze_package_json(file_path, analysis, contents[file_path])
        ELSE IF filename = "pom.xml"
        THEN analyze_maven_pom(file_path, analysis, contents[file_path])
        ELSE IF filename = "requirements.txt"
        THEN analyze_requirements_txt(file_path, analysis, contents[file_path])
        ELSE IF filename = "cargo.toml"
        THEN analyze_cargo_toml(file_path, analysis, contents[file_path])
        ELSE IF filename = "go.mod"
        THEN analyze_go_mod(file_path, analysis, contents[file_path])
        ELSE IF IsDotnetProject(filename, file_path)
        THEN analyze_dotnet_project(file_path, analysis, contents[file_path])
        ELSE IF filename = "packages.config"
        THEN analyze_nuget_packages(file_path, analysis, contents[file_path])
        ELSE IF filename = "gemfile"
        THEN analyze_gemfile(file_path, analysis, contents[file_path])
        ELSE IF filename = "makefile"
        THEN analyze_makefile(file_path, analysis)
        ELSE IF OtherEcosystem(filename, file_path)
        THEN analysis
        ELSE IF filename \in {"next.config.js", "next.config.mjs", "next.config.ts"}
        THEN [analysis EXCEPT !.frameworks = @ \cup {"Next.js"},
                              !.project_types = @ \cup {"Frontend"},
                              !.key_files = Append(@, file_path)]
        ELSE IF filename \in {"nuxt.config.js", "nuxt.config.ts"}
        THEN [analysis EXCEPT !.frameworks = @ \cup {"Nuxt.js"},
                              !.project_types = @ \cup {"Frontend"}]
        ELSE IF filename = "angular.json"
        THEN [analysis EXCEPT !.frameworks = @ \cup {"Angular"},
                              !.project_types = @ \cup {"Frontend"}]
        ELSE IF filename \in {"vue.config.js", "vite.config.js", "vite.config.ts"}
        THEN [analysis EXCEPT !.frameworks = @ \cup {"Vue.js"},
                              !.project_types = @ \cup {"Frontend"}]
        ELSE IF filename \in {"svelte.config.js", "svelte.config.mjs"}
        THEN [analysis EXCEPT !.frameworks = @ \cup {"Svelte"},
                              !.project_types = @ \cup {"Frontend"}]
        ELSE IF filename = "webpack.config.js"
        THEN [analysis EXCEPT !.build_tools = @ \cup {"Webpack"}]
        ELSE IF filename \in {"docker-compose.yml", "docker-compose.yaml", "dockerfile"}
        THEN [analysis EXCEPT !.frameworks = @ \cup {"Docker"},
                              !.key_files = Append(@, file_path)]
        ELSE IF filename \in {"terraform.tf", "main.tf"} \/ EndsWith(file_path, ".tf")
        THEN [analysis EXCEPT !.frameworks = @ \cup {"Terraform"},
                              !.project_types = @ \cup {"Infrastructure"}]
        ELSE IF filename \in {"ansible.yml", "playbook.yml"}
                \/ Contains(file_path, "ansible")
        THEN [analysis EXCEPT !.frameworks = @ \cup {"Ansible"},
                              !.project_types = @ \cup {"Infrastructure"}]
        ELSE IF filename = "serverless.yml"
        THEN [analysis EXCEPT !.frameworks = @ \cup {"Serverless Framework"},
                              !.project_types = @ \cup {"Cloud/Serverless"}]
        ELSE analysis

\* the exception that leaves the parser of a file, "" when none does:
\* what the parser's open and parse raise and its except clause does not
\* name
Raises(file_path, contents) ==
    LET filename == lower(basename(file_path))
        error == ReadError(file_path, contents[file_path])
    IN  IF filename = "package.json"
        THEN IF error \in package_json_caught THEN "" ELSE error
        ELSE IF filename = "pom.xml"
        THEN IF error \in maven_pom_caught THEN "" ELSE error
        ELSE IF filename = "requirements.txt"
        THEN IF error \in requirements_txt_caught THEN "" ELSE error
        ELSE IF filename = "cargo.toml"
        THEN IF ~contents[file_path].tomli \/ error \in cargo_toml_caught
             THEN "" ELSE error
        ELSE IF filename = "go.mod"
        THEN IF error \in go_mod_caught THEN "" ELSE error
        ELSE IF IsDotnetProject(filename, file_path) \/ filename = "packages.config"
        THEN IF error \in dotnet_caught THEN "" ELSE error
        ELSE IF filename = "gemfile"
        THEN IF error \in gemfile_caught THEN "" ELSE error
        ELSE ""

\* the exception that leaves the loop of analyze_dependencies: the one of
\* the first file whose parser lets one out
RECURSIVE analyze_dependencies_raises(_, _)
analyze_dependencies_raises(files, contents) ==
    IF files = <<>> THEN ""
    ELSE IF Raises(Head(files), contents) # "" THEN Raises(Head(files), contents)
    ELSE analyze_dependencies_raises(Tail(files), contents)

RECURSIVE AnalyzeAll(_, _, _)
AnalyzeAll(analysis, files, contents) ==
    IF files = <<>> THEN analysis
    ELSE AnalyzeAll(AnalyzeFile(analysis, Head(files), contents), Tail(files), contents)

detect_project_patterns(files, analysis) ==
    LET file_extensions == {lower(splitext_ext(files[i])) : i \in 1..Len(files)}
        types == {file_patterns[k][1] : k \in {j \in 1..Len(file_patterns) :
                        file_patterns[j][2] \cap file_extensions # {}}}
    IN  [analysis EXCEPT !.project_types = @ \cup types]

analyze_dependencies(files, contents) ==
    detect_project_patterns(files, AnalyzeAll(NoAnalysis, files, contents))

(***************************************************************************)
(* Large-file truncation                                                   *)
(*                                                                         *)
(* A file content is its length and the (0-based) indices of its newline   *)
(* characters; the other characters play no part in the truncation.        *)
(***************************************************************************)

\* default of the parameter max_chars
max_chars_default == 50000

ContentLens == {0, 49999, 50000, 50001, 50400, 60000}

NewlineAt == {0, 49499, 49500, 49501, 49999, 50000, 50001, 59999}

Contents ==
    {[len |-> n, nl |-> S] : n \in ContentLens,
        S \in {T \in SUBSET NewlineAt : Cardinality(T) <= MaxNewlines}}
    \cap {c \in [len : ContentLens, nl : SUBSET NewlineAt] :
            c.nl \subseteq 0..(c.len - 1)}

Digit(d) == Char("0123456789", d + 1)

RECURSIVE str(_)
\* str(n) of a natural number
str(n) == IF n < 10 THEN Digit(n) ELSE str(n \div 10) \o Digit(n % 10)

RECURSIVE FormatThousands(_)
\* f'{n:,}'
FormatThousands(n) ==
    IF n < 1000 THEN str(n)
    ELSE FormatThousands(n \div 1000) \o ","
         \o Digit((n % 1000) \div 100) \o Digit((n % 100) \div 10) \o Digit(n % 10)

\* content[:k]
Slice(c, k) ==
    LET m == IF k < c.len THEN k ELSE c.len
    IN  [len |-> m, nl |-> {i \in c.nl : i < m}]

Max(a, b) == IF a >= b THEN a ELSE b

\* smart_truncate_by_chars cutting at the first newline of the searched
\* range
smart_truncate_by_chars_first_newline(c, max_chars) ==
    IF c.len <= max_chars
    THEN [shown |-> c, original_size |-> "", shown_size |-> "",
          was_truncated |-> FALSE]
    ELSE
    LET hits == {i \in (Max(max_chars - 500, 0) + 1)..max_chars : i \in c.nl}
        truncate_point ==
            IF hits = {} THEN max_chars
            ELSE CHOOSE i \in hits : \A j \in hits : i <= j
    IN  [shown |-> Slice(c, truncate_point),
         original_size |-> FormatThousands(c.len),
         shown_size |-> FormatThousands(truncate_point),
         was_truncated |-> TRUE]

\* smart_truncate_by_chars stating the budget as the shown size
smart_truncate_by_chars_states_budget(c, max_chars) ==
    IF c.len <= max_chars
    THEN [shown |-> c, original_size |-> "", shown_size |-> "",
          was_truncated |-> FALSE]
    ELSE
    LET hits == {i \in (Max(max_chars - 500, 0) + 1)..max_chars : i \in c.nl}
        truncate_point ==
            IF hits = {} THEN max_chars
            ELSE CHOOSE i \in hits : \A j \in hits : j <= i
    IN  [shown |-> Slice(c, truncate_point),
         original_size |-> FormatThousands(c.len),
         shown_size |-> FormatThousands(max_chars),
         was_truncated |-> TRUE]

\* the result: the visible prefix, the two sizes the marker states (none
\* when nothing is cut), and the truncation flag
smart_truncate_by_chars(c, max_chars) ==
    IF c.len <= max_chars
    THEN [shown |-> c, original_size |-> "", shown_size |-> "",
          was_truncated |-> FALSE]
    ELSE
    LET hits == {i \in (Max(max_chars - 500, 0) + 1)..max_chars : i \in c.nl}
        truncate_point ==
            IF hits = {} THEN max_chars
            ELSE CHOOSE i \in hits : \A j \in hits : j <= i
    IN  [shown |-> Slice(c, truncate_point),
         original_size |-> FormatThousands(c.len),
         shown_size |-> FormatThousands(truncate_point),
         was_truncated |-> TRUE]

NoContent == [len |-> 0, nl |-> {}]
NoResult == [shown |-> NoContent, original_size |-> "", shown_size |-> "",
             was_truncated |-> FALSE]

(***************************************************************************)
(* The run of print_file_contents                                          *)
(***************************************************************************)

\* the files of a tree whose content the analyzer parses
ManifestContents(p) ==
    IF lower(basename(p)) = "package.json" THEN PackageJsons
    ELSE IF lower(basename(p)) = "requirements.txt" THEN RequirementsTxts
    ELSE IF lower(basename(p)) = "cargo.toml" THEN CargoTomls
    ELSE IF lower(basename(p)) = "pom.xml" THEN MavenPoms
    ELSE IF lower(basename(p)) = "go.mod" THEN GoMods
    ELSE IF lower(basename(p)) = "gemfile" THEN Gemfiles
    ELSE IF lower(basename(p)) = "packages.config" THEN NugetPackages
    ELSE IF IsDotnetProject(lower(basename(p)), p) THEN DotnetProjects
    ELSE {}

\* every content a manifest can have
AllManifestContents ==
    PackageJsons \cup RequirementsTxts \cup CargoTomls \cup MavenPoms
        \cup GoMods \cup Gemfiles \cup NugetPackages \cup DotnetProjects

Manifests(t) == {p \in t : ManifestContents(p) # {}}

NoException == [type |-> "", raised_in |-> ""]

\* the state in which __main__ calls print_file_contents on a tree of files
\* of universe: the --ignore-ext arguments are normalized, nothing is
\* opened or read yet
InitOn(universe) ==
    /\ script \in Scripts
    /\ tree \in {t \in SUBSET universe : Cardinality(t) <= MaxFiles}
    /\ unreadable \in {{}} \cup {{p} : p \in tree \cap MayBeUnreadable}
    /\ manifest = [p \in {} |-> NoDeps]
    /\ \E inv \in Invocations :
          /\ inv.output_file = "" \/ inv.output_file \in tree
          /\ script = "print_files" => inv.gitignore = "absent"
          /\ unreadable # {} => inv.ignore_ext = {} /\ inv.gitignore = "absent"
          /\ ignore_spec = inv.ignore_spec
          /\ ignore_ext = inv.ignore_ext
          /\ ignore_extensions = normalize_ignore_ext(inv.ignore_ext)
          /\ gitignore \in {g \in GitignoreFiles : g.stat = inv.gitignore}
          /\ output_file = inv.output_file
          /\ toc = inv.toc
    /\ gitignore_patterns = <<>>
    /\ output = "none"
    /\ exception = NoException
    /\ pc = "open"
    /\ walk_stack = <<".">>
    /\ files_to_include = <<>>
    /\ prioritized_files = <<>>
    /\ critical_config = <<>>
    /\ other_config = <<>>
    /\ entry_points = NoEntryPoints
    /\ dependency_analysis = NoAnalysis
    /\ report = <<>>
    /\ content = NoContent
    /\ truncated = NoResult

\* Open with the run going on when the output file cannot be opened
Open_and_go_on ==
    /\ pc = "open"
    /\ \/ /\ output' = IF output_file = "" THEN "none" ELSE "open"
          /\ UNCHANGED exception
       \/ /\ output_file # ""
          /\ exception' = [type |-> "OSError", raised_in |-> "open"]
          /\ UNCHANGED output
    /\ pc' = IF script = "summarize" THEN "gitignore" ELSE "walk"
    /\ UNCHANGED << inputs, manifest, gitignore_patterns, walk_stack,
                    files_to_include, priority, dependency_analysis, report,
                    truncation >>

\* output = open(output_file, 'w', encoding='utf-8') if output_file else None:
\* the first statement that touches the file system; when the open is
\* refused its exception leaves print_file_contents
Open ==
    /\ pc = "open"
    /\ \/ /\ output' = IF output_file = "" THEN "none" ELSE "open"
          /\ pc' = IF script = "summarize" THEN "gitignore" ELSE "walk"
          /\ UNCHANGED exception
       \/ /\ output_file # ""
          /\ exception' = [type |-> "OSError", raised_in |-> "open"]
          /\ pc' = "aborted"
          /\ UNCHANGED output
    /\ UNCHANGED << inputs, manifest, gitignore_patterns, walk_stack,
                    files_to_include, priority, dependency_analysis, report,
                    truncation >>

\* gitignore_patterns = load_gitignore_patterns(base_path), summarize.py:
\* the call stands between the open of the output file and the try
\* statement, so an exception of gitignore_path.exists() leaves
\* print_file_contents without passing the finally clause
LoadGitignore ==
    /\ pc = "gitignore"
    /\ IF gitignore.stat = "PermissionError"
       THEN /\ exception' = [type |-> "PermissionError", raised_in |-> "gitignore"]
            /\ pc' = "aborted"
            /\ UNCHANGED gitignore_patterns
       ELSE /\ gitignore_patterns' = load_gitignore_patterns(gitignore)
            /\ pc' = "walk"
            /\ UNCHANGED exception
    /\ UNCHANGED << inputs, manifest, output, walk_stack, files_to_include,
                    priority, dependency_analysis, report, truncation >>

\* one iteration of the loop over os.walk, summarize.py: a directory the
\* auto-ignore list names is pruned, the files of any other one are
\* filtered in the order the listing gives them
WalkDir ==
    /\ pc = "walk"
    /\ script = "summarize"
    /\ walk_stack # <<>>
    /\ LET root == Head(walk_stack)
       IN  IF should_auto_ignore(root \o "/")
           THEN /\ walk_stack' = Tail(walk_stack)
                /\ UNCHANGED files_to_include
           ELSE \E files \in Perms(FilesIn(tree, root)),
                   dirs \in Perms(DirsIn(tree, root)) :
                    /\ files_to_include' = files_to_include \o Included(root, files)
                    /\ walk_stack' = dirs \o Tail(walk_stack)
    /\ UNCHANGED << inputs, manifest, gitignore_patterns, output, exception, pc,
                    priority, dependency_analysis, report, truncation >>

\* one iteration of the loop over os.walk, print_files.py: a directory
\* the ignore spec matches is pruned
pf_WalkDir ==
    /\ pc = "walk"
    /\ script = "print_files"
    /\ walk_stack # <<>>
    /\ LET root == Head(walk_stack)
       IN  IF (root \o "/") \in ignore_spec
           THEN /\ walk_stack' = Tail(walk_stack)
                /\ UNCHANGED files_to_include
           ELSE \E files \in Perms(FilesIn(tree, root)),
                   dirs \in Perms(DirsIn(tree, root)) :
                    /\ files_to_include' = files_to_include \o pf_Included(root, files)
                    /\ walk_stack' = dirs \o Tail(walk_stack)
    /\ UNCHANGED << inputs, manifest, gitignore_patterns, output, exception, pc,
                    priority, dependency_analysis, report, truncation >>

\* prioritized_files, entry_points = prioritize_files(files_to_include, base_path)
Prioritize ==
    /\ pc = "walk"
    /\ script = "summarize"
    /\ walk_stack = <<>>
    /\ LET result == prioritize_files(files_to_include)
       IN  /\ prioritized_files' = result.prioritized
           /\ entry_points' = result.entry_points
           /\ critical_config' = result.critical_config
           /\ other_config' = result.other_config
    /\ pc' = "analyze"
    /\ UNCHANGED << inputs, manifest, gitignore_patterns, output, exception,
                    walk_stack, files_to_include, dependency_analysis, report,
                    truncation >>

pf_Prioritize ==
    /\ pc = "walk"
    /\ script = "print_files"
    /\ walk_stack = <<>>
    /\ LET result == pf_prioritize_files(files_to_include)
       IN  /\ prioritized_files' = result.prioritized
           /\ entry_points' = result.entry_points
           /\ critical_config' = result.critical_config
           /\ other_config' = result.other_config
    /\ pc' = "render"
    /\ UNCHANGED << inputs, manifest, gitignore_patterns, output, exception,
                    walk_stack, files_to_include, dependency_analysis, report,
                    truncation >>

\* dependency_analysis = analyze_dependencies(files_to_include, base_path),
\* each manifest of the filtered list being read once; an exception that
\* leaves a parser leaves analyze_dependencies and the try statement
Analyze ==
    /\ pc = "analyze"
    /\ \E m \in [Manifests(Range(files_to_include)) -> AllManifestContents] :
          /\ \A p \in DOMAIN m : m[p] \in ManifestContents(p)
          /\ manifest' = m
          /\ LET raised == analyze_dependencies_raises(files_to_include, m)
             IN  IF raised # ""
                 THEN /\ exception' = [type |-> raised, raised_in |-> "analyze"]
                      /\ pc' = "finally"
                      /\ UNCHANGED dependency_analysis
                 ELSE /\ dependency_analysis' = analyze_dependencies(files_to_include, m)
                      /\ pc' = "render"
                      /\ UNCHANGED exception
    /\ UNCHANGED << inputs, gitignore_patterns, output, walk_stack,
                    files_to_include, priority, report, truncation >>

\* the role shown in a file's metadata line
RoleIndicator(eps, relative_path) ==
    IF InList(relative_path, eps.main_entry) THEN "**MAIN ENTRY POINT**"
    ELSE IF InList(relative_path, eps.config_entry) THEN "**CONFIGURATION**"
    ELSE IF InList(relative_path, eps.startup_scripts) THEN "**STARTUP SCRIPT**"
    ELSE IF InList(relative_path, eps.api_routes) THEN "**API/ROUTES**"
    ELSE IF InList(relative_path, eps.other_important) THEN "**BUILD/DEPLOY**"
    ELSE ""

\* whether the open and read of a file in the loop over the priority order
\* raise: the file cannot be opened, or its bytes cannot be decoded
ReadFails(relative_path) ==
    \/ relative_path \in unreadable
    \/ /\ relative_path \in DOMAIN manifest
       /\ manifest[relative_path].error = "UnicodeDecodeError"

\* node.get('__files__', []) of the node of directory dir: the basenames
\* of the listed files of that directory, one per entry of the list
TreeFiles(files, dir) ==
    LET InDir(f) == Parent(f) = dir
        here == SelectSeq(files, InDir)
    IN  [i \in 1..Len(here) |-> basename(here[i])]

\* the keys of the node of directory dir other than '__files__': the names
\* of the directories below it that hold a listed file
TreeDirs(files, dir) ==
    {basename(d) : d \in DirsIn(Range(files), dir)}

\* print_tree of build_tree: the lines of one node, its directories sorted
\* by name, then its files sorted by name, the lines of a directory's node
\* following the directory's line; a line is its prefix (the depth and
\* whether the item is the last one of its node) and the item's name
RECURSIVE print_tree(_, _, _)
print_tree(files, dir, depth) ==
    LET dirs == sorted(CHOOSE s \in Perms(TreeDirs(files, dir)) : TRUE)
        items == dirs \o sorted(TreeFiles(files, dir))
        Lines(i) ==
            <<[depth |-> depth, is_last |-> i = Len(items), item |-> items[i]]>>
            \o (IF InList(items[i], dirs)
                THEN print_tree(files, RelPath(dir, items[i]), depth + 1)
                ELSE <<>>)
        Upto[i \in 0..Len(items)] == IF i = 0 THEN <<>> ELSE Upto[i - 1] \o Lines(i)
    IN  Upto[Len(items)]

\* build_tree(files): the lines of the table of contents
build_tree(files) == print_tree(files, ".", 0)

\* the report, as far as it is made of paths: the overview, the table of
\* contents when --toc is given, and one section per entry of the priority
\* order, which holds the file's content or, when reading it raised, the
\* error annotation
Rendered(files, prioritized, eps, analysis, with_config) ==
    LET dep_names == IF with_config
                     THEN {"package.json", "pom.xml", "requirements.txt",
                           "build.gradle", "pyproject.toml", "go.mod",
                           "cargo.toml", "pubspec.yaml"}
                     ELSE {"package.json", "pom.xml", "requirements.txt",
                           "build.gradle", "pyproject.toml", "go.mod"}
        IsDep(f) == basename(f) \in dep_names
        critical == detect_critical_config_files(files)
    IN  [total_files |-> Len(files),
         dep_files |-> SelectSeq(files, IsDep),
         entry_summary |-> <<eps.main_entry, eps.config_entry,
                             eps.startup_scripts, eps.api_routes>>,
         config_files |-> IF with_config
                          THEN critical \o detect_other_config_files(files, critical)
                          ELSE <<>>,
         dependency_summary |-> analysis,
         toc |-> IF toc THEN build_tree(prioritized) ELSE <<>>,
         sections |-> [i \in 1..Len(prioritized) |->
                         [path |-> prioritized[i],
                          role |-> RoleIndicator(eps, prioritized[i]),
                          error |-> ReadFails(prioritized[i])]]]

\* the writes of the report, all of them succeeding
Render ==
    /\ pc = "render"
    /\ report' = Rendered(files_to_include, prioritized_files, entry_points,
                          dependency_analysis, script = "summarize")
    /\ pc' = "finally"
    /\ UNCHANGED << inputs, manifest, gitignore_patterns, output, exception,
                    walk_stack, files_to_include, priority, dependency_analysis,
                    truncation >>

\* the writes of the report to the output file, output.write raising after
\* the sections of the first k files
RenderFails ==
    /\ pc = "render"
    /\ output = "open"
    /\ \E k \in 0..(Len(prioritized_files) - 1) :
          report' = [Rendered(files_to_include, prioritized_files, entry_points,
                              dependency_analysis, script = "summarize")
                        EXCEPT !.sections = SubSeq(@, 1, k)]
    /\ exception' = [type |-> "OSError", raised_in |-> "render"]
    /\ pc' = "finally"
    /\ UNCHANGED << inputs, manifest, gitignore_patterns, output, walk_stack,
                    files_to_include, priority, dependency_analysis, truncation >>

\* the finally clause: the output file is closed, then the run ends or the
\* exception goes on to the caller
Finally ==
    /\ pc = "finally"
    /\ output' = IF output = "open" THEN "closed" ELSE output
    /\ pc' = IF exception = NoException THEN "done" ELSE "aborted"
    /\ UNCHANGED << inputs, manifest, gitignore_patterns, exception, walk_stack,
                    files_to_include, priority, dependency_analysis, report,
                    truncation >>

Next ==
    \/ Open \/ LoadGitignore \/ WalkDir \/ pf_WalkDir \/ Prioritize
    \/ pf_Prioritize \/ Analyze \/ Render \/ RenderFails \/ Finally

Init == InitOn(Universe)

Spec == Init /\ [][Next]_vars

(***************************************************************************)
(* The run on a tree of manifests without an allowed extension             *)
(***************************************************************************)

InitUnlisted == InitOn(UnlistedUniverse)

SpecUnlisted == InitUnlisted /\ [][Next]_vars

(***************************************************************************)
(* smart_truncate_by_chars on its own                                      *)
(***************************************************************************)

InitTruncate ==
    /\ script = "summarize"
    /\ tree = {}
    /\ unreadable = {}
    /\ gitignore = [stat |-> "absent", lines |-> <<>>]
    /\ manifest = [p \in {} |-> NoDeps]
    /\ ignore_spec = {}
    /\ ignore_ext = {}
    /\ ignore_extensions = {}
    /\ gitignore_patterns = <<>>
    /\ output_file = ""
    /\ toc = FALSE
    /\ output = "none"
    /\ exception = NoException
    /\ pc = "read"
    /\ walk_stack = <<>>
    /\ files_to_include = <<>>
    /\ prioritized_files = <<>>
    /\ critical_config = <<>>
    /\ other_config = <<>>
    /\ entry_points = NoEntryPoints
    /\ dependency_analysis = NoAnalysis
    /\ report = <<>>
    /\ content \in Contents
    /\ truncated = NoResult

\* truncated_contents, was_truncated = smart_truncate_by_chars(contents, relative_path)
Truncate ==
    /\ pc = "read"
    /\ truncated' = smart_truncate_by_chars(content, max_chars_default)
    /\ pc' = "truncated"
    /\ UNCHANGED << inputs, manifest, gitignore_patterns, output, exception,
                    walk_stack, files_to_include, priority, dependency_analysis,
                    report, content >>

NextTruncate == Truncate

SpecTruncate == InitTruncate /\ [][NextTruncate]_vars

(***************************************************************************)
(* Properties                                                              *)
(***************************************************************************)

\* prioritize_files has returned
Prioritized == pc \in {"analyze", "render", "finally", "done"}

\* analyze_dependencies has returned
Analyzed ==
    /\ script = "summarize"
    /\ pc \in {"render", "finally", "done"}
    /\ exception = NoException

\* the index of the first occurrence of x in list, 0 when there is none
FirstIndex(list, x) ==
    LET hits == {i \in 1..Len(list) : list[i] = x}
    IN  IF hits = {} THEN 0 ELSE CHOOSE i \in hits : \A j \in hits : i <= j

HasSegment(p, name) == InList(name, split(p, "/"))

\* C1: the sequence returned by the 7-group prioritize_files holds no path
\* more than once
NoPathTwice ==
    (script = "summarize" /\ Prioritized) =>
        \A i, j \in 1..Len(prioritized_files) :
            prioritized_files[i] = prioritized_files[j] => i = j

\* C2: the set of paths of the sequence returned by prioritize_files is
\* the set of the input paths
SamePathSet ==
    (script = "summarize" /\ Prioritized) =>
        Range(prioritized_files) = Range(files_to_include)

SamePathSetWitness ==
    /\ script = "summarize"
    /\ pc = "done"
    /\ files_to_include = <<"src/util.py", "cmd/main.go">>
    /\ prioritized_files = <<"cmd/main.go", "src/util.py">>

\* C3: a file whose basename is main.go is in the main-entry list and
\* comes, in the priority order of either script, before every file of the
\* config-entry list
MainGoBeforeConfig ==
    Prioritized =>
        \A i \in 1..Len(files_to_include) :
            basename(files_to_include[i]) = "main.go" =>
                /\ InList(files_to_include[i], entry_points.main_entry)
                /\ FirstIndex(prioritized_files, files_to_include[i]) > 0
                /\ \A j \in 1..Len(prioritized_files) :
                      InList(prioritized_files[j], entry_points.config_entry) =>
                          FirstIndex(prioritized_files, files_to_include[i]) < j

MainGoBeforeConfigWitness ==
    /\ pc = "done"
    /\ files_to_include = <<"package.json", "cmd/main.go">>
    /\ entry_points.config_entry = <<"package.json">>
    /\ prioritized_files[1] = "cmd/main.go"

\* the place of a file's name in the ranked list of critical names, 0 when
\* the name is not in it
CriticalRank(f) ==
    LET name == lower(basename(f))
        hits == {k \in 1..Len(critical_patterns) : critical_patterns_lower[k] = name}
    IN  IF hits = {} THEN 0 ELSE CHOOSE k \in hits : \A m \in hits : k <= m

\* C4: the critical-configuration group follows the main-entry group and is
\* in the order of the ranked list; with a package.json and a
\* requirements.txt in the filtered list, both names are in the group,
\* package.json first
CriticalInRankOrder ==
    (script = "summarize" /\ Prioritized) =>
        LET n == Len(entry_points.main_entry)
            c == critical_config
        IN  /\ SubSeq(prioritized_files, n + 1, n + Len(c)) = c
            /\ \A i \in 1..Len(c) : CriticalRank(c[i]) > 0
            /\ \A i, j \in 1..Len(c) : i < j => CriticalRank(c[i]) < CriticalRank(c[j])
            /\ (\E a, b \in Range(files_to_include) :
                    basename(a) = "package.json" /\ basename(b) = "requirements.txt")
               => \E i, j \in 1..Len(c) :
                      /\ i < j
                      /\ basename(c[i]) = "package.json"
                      /\ basename(c[j]) = "requirements.txt"

CriticalInRankOrderWitness ==
    /\ script = "summarize"
    /\ pc = "done"
    /\ files_to_include = <<"requirements.txt", "package.json">>
    /\ critical_config = <<"package.json", "requirements.txt">>
    /\ prioritized_files = <<"package.json", "requirements.txt">>

\* the package.json files that were parsed and whose dependencies object
\* has a key containing "react"
ReactPackages ==
    {p \in DOMAIN manifest :
        /\ lower(basename(p)) = "package.json"
        /\ manifest[p].ok
        /\ \E k \in DOMAIN manifest[p].dependencies : Contains(k, "react")}

AllKeys(p) == (DOMAIN manifest[p].dependencies) \cup (DOMAIN manifest[p].devDependencies)

\* C5, as claimed: with a package.json whose dependencies have a key
\* containing "react", the frameworks contain "React" and the project
\* types contain "Frontend"
ReactImpliesFrontend ==
    Analyzed =>
        \A p \in ReactPackages :
            /\ "React" \in dependency_analysis.frameworks
            /\ "Frontend" \in dependency_analysis.project_types

\* C5, amended: the frameworks contain "React"; the project types contain
\* "Frontend" when some key is exactly "react" and none is exactly
\* "react-native" or "expo", and "Mobile App" when one of these two is a key
ReactFrameworkAndType ==
    Analyzed =>
        \A p \in ReactPackages :
            /\ "React" \in dependency_analysis.frameworks
            /\ ("react" \in AllKeys(p) /\ AllKeys(p) \cap {"react-native", "expo"} = {})
               => "Frontend" \in dependency_analysis.project_types
            /\ AllKeys(p) \cap {"react-native", "expo"} # {}
               => "Mobile App" \in dependency_analysis.project_types

ReactFrameworkAndTypeWitness ==
    /\ Analyzed
    /\ pc = "done"
    /\ \E p \in ReactPackages :
          /\ DOMAIN manifest[p].dependencies = {"react-dom"}
          /\ "React" \in dependency_analysis.frameworks
          /\ "Frontend" \notin dependency_analysis.project_types

\* C6: a path with a segment node_modules is excluded by the auto-ignore
\* check, and no file beneath a node_modules directory is ever in the
\* filtered list of summarize.py
NoNodeModules ==
    script = "summarize" =>
        \A p \in tree :
            HasSegment(p, "node_modules") =>
                should_auto_ignore(p) /\ ~InList(p, files_to_include)

NoNodeModulesWitness ==
    /\ script = "summarize"
    /\ pc = "done"
    /\ "web/node_modules/lib/util.js" \in tree
    /\ InList("web/app.js", files_to_include)

\* C7, as claimed: the cut position of a truncated content is the index of
\* one of its newline characters
CutAtNewline ==
    (pc = "truncated" /\ truncated.was_truncated) =>
        truncated.shown.len \in content.nl

\* the newline indices the backward search looks at
SearchedNewlines ==
    {i \in content.nl : max_chars_default - 500 < i /\ i <= max_chars_default}

\* C7, amended: when the content has a newline among the last 500 indices
\* up to the budget, the cut position is the last of them; when it has
\* none there, the cut position is the budget itself
CutAtLastNewlineInWindow ==
    (pc = "truncated" /\ truncated.was_truncated) =>
        IF SearchedNewlines # {}
        THEN /\ truncated.shown.len \in SearchedNewlines
             /\ \A i \in SearchedNewlines : i <= truncated.shown.len
        ELSE truncated.shown.len = max_chars_default

CutAtLastNewlineInWindowWitness ==
    /\ pc = "truncated"
    /\ truncated.was_truncated
    /\ content.nl = {49501, 49999}
    /\ truncated.shown.len = 49999

DigitValue(c) == CHOOSE d \in 0..9 : Digit(d) = c

RECURSIVE ReadNumber(_, _)
\* the number a decimal numeral with thousands separators denotes
ReadNumber(s, acc) ==
    IF Len(s) = 0 THEN acc
    ELSE IF Char(s, 1) = "," THEN ReadNumber(SubSeq(s, 2, Len(s)), acc)
    ELSE ReadNumber(SubSeq(s, 2, Len(s)), acc * 10 + DigitValue(Char(s, 1)))

\* C8: a content longer than the budget is flagged, and its marker states
\* the length of the content and the length of the visible prefix; any
\* other content is returned as it is and not flagged
MarkerStatesSizes ==
    pc = "truncated" =>
        IF content.len > max_chars_default
        THEN /\ truncated.was_truncated
             /\ ReadNumber(truncated.original_size, 0) = content.len
             /\ ReadNumber(truncated.shown_size, 0) = truncated.shown.len
             /\ truncated.shown = Slice(content, truncated.shown.len)
        ELSE /\ ~truncated.was_truncated
             /\ truncated.shown = content

MarkerStatesSizesWitness ==
    /\ pc = "truncated"
    /\ content.len = 60000
    /\ truncated.was_truncated
    /\ truncated.original_size = "60,000"
    /\ truncated.shown_size = "49,501"

\* a directory listing in sorted order
Listing(S) == sorted(CHOOSE f \in Perms(S) : TRUE)

RECURSIVE SortedWalk(_, _)
\* the filtered list of the run of summarize.py in which os.walk lists
\* every directory in sorted order
SortedWalk(stack, acc) ==
    IF stack = <<>> THEN acc
    ELSE IF should_auto_ignore(Head(stack) \o "/")
    THEN SortedWalk(Tail(stack), acc)
    ELSE SortedWalk(Listing(DirsIn(tree, Head(stack))) \o Tail(stack),
                    acc \o Included(Head(stack), Listing(FilesIn(tree, Head(stack)))))

\* C9: the filtered list, the priority order and the report of a run are
\* those of any other run on the same tree, whatever the order in which
\* os.walk lists the directories: they are those of the run that lists
\* them in sorted order
SameOutputWhateverListingOrder ==
    (script = "summarize" /\ pc = "done") =>
        LET files == SortedWalk(<<".">>, <<>>)
            result == prioritize_files(files)
        IN  /\ files_to_include = files
            /\ prioritized_files = result.prioritized
            /\ report = Rendered(files, result.prioritized, result.entry_points,
                                 analyze_dependencies(files, manifest), TRUE)

\* the five checks of the classifier
IsMainName(p) == InList(lower(basename(p)), main_files_lower)
IsConfigName(p) == InList(lower(basename(p)), config_files_lower)
IsStartupName(p) ==
    \E k \in 1..Len(startup_scripts) : lower(startup_scripts[k]) = lower(basename(p))
HasRouteWord(p) ==
    \E w \in {"route", "controller", "handler", "endpoint"} : Contains(lower(p), w)
HasBuildWord(p) ==
    \E w \in {"makefile", "jenkinsfile", "dockerfile"} : Contains(lower(basename(p)), w)

\* the number of occurrences of x in list
Count(list, x) == Cardinality({i \in 1..Len(list) : list[i] = x})

\* C10: every file of the list is in the role list of the first check it
\* passes, once, and in no other role list; which list depends on its path
\* alone
OneRolePerFile ==
    Prioritized =>
        \A f \in Range(files_to_include) :
            LET in_main == IsMainName(f)
                in_config == ~in_main /\ IsConfigName(f)
                in_startup == ~in_main /\ ~in_config /\ IsStartupName(f)
                in_api == ~in_main /\ ~in_config /\ ~in_startup /\ HasRouteWord(f)
                in_other == /\ ~in_main /\ ~in_config /\ ~in_startup /\ ~in_api
                            /\ HasBuildWord(f)
                One(b) == IF b THEN 1 ELSE 0
            IN  /\ Count(entry_points.main_entry, f) = One(in_main)
                /\ Count(entry_points.config_entry, f) = One(in_config)
                /\ Count(entry_points.startup_scripts, f) = One(in_startup)
                /\ Count(entry_points.api_routes, f) = One(in_api)
                /\ Count(entry_points.other_important, f) = One(in_other)

OneRolePerFileWitness ==
    /\ pc = "done"
    /\ InList("handlers/settings.py", entry_points.config_entry)
    /\ InList("routes/config.json", entry_points.api_routes)


\* the patterns the .gitignore of the base directory supplies
DiscoveredPatterns == load_gitignore_patterns(gitignore)

\* C11: in summarize.py a file of the filtered list is matched by no rule
\* of any source: not by the auto-ignore list, not by the ignore spec and
\* not by a pattern discovered in .gitignore, each source excluding on its
\* own
NoExcludedFileIncluded ==
    script = "summarize" =>
        \A i \in 1..Len(files_to_include) :
            /\ ~should_auto_ignore(files_to_include[i])
            /\ files_to_include[i] \notin ignore_spec
            /\ ~matches_gitignore(files_to_include[i], DiscoveredPatterns)

NoExcludedFileIncludedWitness ==
    /\ script = "summarize"
    /\ pc = "done"
    /\ tree = {"start.sh", "src/util.py"}
    /\ ~should_auto_ignore("start.sh")
    /\ matches_gitignore("start.sh", DiscoveredPatterns)
    /\ files_to_include = <<"src/util.py">>

\* the normalized form of one --ignore-ext argument: lower case, with a
\* leading dot
Normalized(arg) ==
    IF StartsWith(lower(arg), ".") THEN lower(arg) ELSE "." \o lower(arg)

\* C12: every file of the filtered list has a lower-cased extension that is
\* in the allow-list and that is the normalized form of no --ignore-ext
\* argument
AllowedAndNotDenied ==
    \A i \in 1..Len(files_to_include) :
        LET ext == lower(splitext_ext(basename(files_to_include[i])))
        IN  /\ InList(ext, ALLOWED_EXTENSIONS)
            /\ \A arg \in ignore_ext : ext # Normalized(arg)

AllowedAndNotDeniedWitness ==
    /\ pc = "done"
    /\ tree = {"NOTES.TXT", "src/util.py"}
    /\ ".Txt" \in ignore_ext
    /\ files_to_include = <<"src/util.py">>

\* the directories of the tree that the walk of summarize.py prunes
PrunedDirs == {d \in AllDirs(tree) \ {"."} : should_auto_ignore(d \o "/")}

\* the files the per-file checks of summarize.py let through
PassPerFileChecks == {p \in tree : IncludeFile(Parent(p), basename(p))}

\* C13: in summarize.py the filtered list holds exactly the files that pass
\* the per-file checks, each once, and no file beneath a pruned directory
\* passes them: pruning leaves out nothing the per-file check would keep
PruningIsFiltering ==
    (script = "summarize" /\ Prioritized) =>
        /\ Range(files_to_include) = PassPerFileChecks
        /\ Len(files_to_include) = Cardinality(PassPerFileChecks)
        /\ \A p \in tree :
              Ancestors(p) \cap PrunedDirs # {} => p \notin PassPerFileChecks

PruningIsFilteringWitness ==
    /\ script = "summarize"
    /\ pc = "done"
    /\ tree = {"web/node_modules/lib/util.js", "web/app.js"}
    /\ "web/node_modules" \in PrunedDirs
    /\ files_to_include = <<"web/app.js">>

\* C14, as claimed: no failure to read or parse a manifest ends the run;
\* analyze_dependencies always returns
AnalysisNeverAborts ==
    ~(pc = "aborted" /\ exception.raised_in = "analyze")

\* the manifests of the filtered list that their parser has parsed
Parsed(name) ==
    {p \in DOMAIN manifest :
        /\ lower(basename(p)) = name
        /\ ReadError(p, manifest[p]) = ""
        /\ name = "cargo.toml" => manifest[p].tomli}

\* C15, as claimed: after the analysis the npm dependency map holds every
\* dependency of every package.json that was parsed
NpmDependenciesCumulative ==
    Analyzed =>
        \A p \in Parsed("package.json") :
            (DOMAIN manifest[p].dependencies \cup DOMAIN manifest[p].devDependencies)
                \subseteq DOMAIN dependency_analysis.dependencies["npm"]

\* the framework table of the parser of a manifest name
FrameworkTable(name) ==
    IF name = "package.json" THEN frameworks_map
    ELSE IF name = "requirements.txt" THEN pip_framework_patterns
    ELSE cargo_framework_patterns

\* the dependency names a parsed manifest declares
DeclaredNames(p) ==
    IF lower(basename(p)) = "package.json"
    THEN DOMAIN manifest[p].dependencies \cup DOMAIN manifest[p].devDependencies
    ELSE DOMAIN manifest[p].dependencies

\* C16, as claimed: for every parsed manifest, a framework is in the record
\* whenever its pattern is a substring of a dependency name, letter case
\* being ignored
FrameworkMatchIgnoresCase ==
    Analyzed =>
        \A name \in {"package.json", "requirements.txt", "cargo.toml"} :
            \A p \in Parsed(name) :
                \A k \in 1..Len(FrameworkTable(name)) :
                    (\E dep \in DeclaredNames(p) :
                        Contains(lower(dep), FrameworkTable(name)[k][1]))
                    => FrameworkTable(name)[k][2] \in dependency_analysis.frameworks

\* the run has ended, by returning or by an exception leaving it
Ended == pc \in {"done", "aborted"}

\* C17, as claimed: a file of the priority order that cannot be read does
\* not abort the run, and the finished report has one section per entry of
\* the priority order, in that order, holding the content or the error
\* annotation
UnreadableFileKeepsItsSection ==
    (Ended /\ unreadable \cap Range(prioritized_files) # {}
           /\ exception.raised_in # "render") =>
        /\ pc = "done"
        /\ Len(report.sections) = Len(prioritized_files)
        /\ \A i \in 1..Len(prioritized_files) :
              /\ report.sections[i].path = prioritized_files[i]
              /\ report.sections[i].error = (prioritized_files[i] \in unreadable)

\* C18, as claimed: when the run has ended, an output file that was opened
\* is closed
OutputClosedAtEnd ==
    Ended => output # "open"

\* C19: when the output file cannot be opened the run is over at once:
\* no .gitignore has been loaded, no directory walked, no manifest read and
\* no report text written, and nothing of it happens later
OpenFailureAbortsAtOnce ==
    exception.raised_in = "open" =>
        /\ pc = "aborted"
        /\ output = "none"
        /\ gitignore_patterns = <<>>
        /\ walk_stack = <<".">>
        /\ files_to_include = <<>>
        /\ prioritized_files = <<>>
        /\ DOMAIN manifest = {}
        /\ report = <<>>

OpenFailureAbortsAtOnceWitness ==
    /\ exception = [type |-> "OSError", raised_in |-> "open"]
    /\ pc = "aborted"
    /\ output_file = "README.md"
    /\ tree = {"README.md", "src/util.py"}

\* the files that the checks on the path and the arguments let through: the
\* extension lists, the ignore spec, the output file, and in summarize.py
\* the auto-ignore list, in print_files.py the pruning by the ignore spec
PassPathChecks ==
    {p \in tree :
        /\ pf_IncludeFile(Parent(p), basename(p))
        /\ script = "summarize" => ~should_auto_ignore(p)
        /\ script = "print_files" =>
              \A d \in Ancestors(p) \ {"."} : (d \o "/") \notin ignore_spec}

\* the priority order of a filtered list
PriorityOrder(files) ==
    IF script = "summarize" THEN prioritize_files(files).prioritized
    ELSE pf_prioritize_files(files).prioritized

\* C20, as claimed: the filtered list holds the files that pass the checks
\* on paths and arguments, whatever any file of the tree contains
IncludedByPathAlone ==
    Prioritized => Range(files_to_include) = PassPathChecks

\* C20, amended: the filtered list holds the files that pass the checks on
\* paths and arguments and that no pattern of the base directory's
\* .gitignore matches, whatever the listed files contain and whether or not
\* they can be read; the priority order is that of the filtered list
IncludedByPathAndGitignore ==
    Prioritized =>
        /\ Range(files_to_include) =
              {p \in PassPathChecks :
                  ~(script = "summarize" /\ matches_gitignore(p, DiscoveredPatterns))}
        /\ prioritized_files = PriorityOrder(files_to_include)

IncludedByPathAndGitignoreWitness ==
    /\ script = "summarize"
    /\ pc = "done"
    /\ tree = {"package.json", "src/util.py"}
    /\ unreadable = {"src/util.py"}
    /\ manifest["package.json"].error = "JSONDecodeError"
    /\ Range(files_to_include) = tree
    /\ report.sections[2] = [path |-> "src/util.py", role |-> "", error |-> TRUE]

\* the report text has been written up to and including the table of
\* contents
TocWritten == toc /\ pc \in {"finally", "done", "aborted"} /\ report # <<>>

\* the path of the item of line i of a table of contents: the item's name
\* under the path of the nearest earlier line one level up
RECURSIVE TocPath(_, _)
TocPath(lines, i) ==
    IF lines[i].depth = 0 THEN lines[i].item
    ELSE LET above == {j \in 1..(i - 1) : lines[j].depth = lines[i].depth - 1}
             j == CHOOSE k \in above : \A l \in above : l <= k
         IN  TocPath(lines, j) \o "/" \o lines[i].item

\* the paths of the files a table of contents lists, in the order of its
\* lines: a line is a directory's when the next line is one level deeper
TocFiles(lines) ==
    LET IsFile(i) == ~(i < Len(lines) /\ lines[i + 1].depth = lines[i].depth + 1)
        idx == SelectSeq([i \in 1..Len(lines) |-> i], IsFile)
    IN  [k \in 1..Len(idx) |-> TocPath(lines, idx[k])]

\* the entries of a list of paths that lie in directory dir
InDirectory(list, dir) ==
    LET Here(p) == Parent(p) = dir
    IN  SelectSeq(list, Here)

\* C21: the files the table of contents lists under a directory are the
\* files of that directory in the priority order, in the order and as many
\* times as the priority order holds them
TocFollowsPriorityOrder ==
    TocWritten =>
        \A dir \in AllDirs(Range(prioritized_files)) \cup {"."} :
            InDirectory(TocFiles(report.toc), dir) =
                InDirectory(prioritized_files, dir)

\* the table of contents lists the files of the priority order with their
\* multiplicities
TocListsEverySection ==
    TocWritten =>
        \A p \in Range(prioritized_files) \cup Range(TocFiles(report.toc)) :
            Cardinality({i \in DOMAIN TocFiles(report.toc) : TocFiles(report.toc)[i] = p})
                = Cardinality({i \in DOMAIN prioritized_files : prioritized_files[i] = p})

\* the lists that prioritize_files puts in front of the remaining files, in
\* the order in which it extends the result with them
Groups ==
    IF script = "summarize"
    THEN << entry_points.main_entry, critical_config, other_config,
            entry_points.startup_scripts, entry_points.api_routes,
            entry_points.other_important >>
    ELSE << entry_points.main_entry, entry_points.config_entry,
            entry_points.startup_scripts, entry_points.api_routes,
            entry_points.other_important >>

\* the number of entries of the first g groups
PlacedUpTo[g \in 0..6] ==
    IF g = 0 THEN 0
    ELSE PlacedUpTo[g - 1] + (IF g <= Len(Groups) THEN Len(Groups[g]) ELSE 0)

PlacedCount == PlacedUpTo[Len(Groups)]

\* the group that placed entry i of the priority order, the last group
\* being number Len(Groups) + 1
GroupOf(i) ==
    IF i > PlacedCount THEN Len(Groups) + 1
    ELSE CHOOSE g \in 1..Len(Groups) : PlacedUpTo[g - 1] < i /\ i <= PlacedUpTo[g]

\* the entries of the priority order behind those of the groups
LastGroup == SubSeq(prioritized_files, PlacedCount + 1, Len(prioritized_files))

\* C22, as claimed: two entries of the priority order placed by the same
\* group are in lexical order of their paths
EqualPriorityLexical ==
    Prioritized =>
        \A i, j \in 1..Len(prioritized_files) :
            (i < j /\ GroupOf(i) = GroupOf(j)) =>
                ~StrLess(prioritized_files[j], prioritized_files[i])

\* C22, amended: two entries of the priority order placed by the same
\* group are in lexical order of their paths in the last group only; in the
\* group of the critical configuration files they are in the order of the
\* ranked list, in every other group in discovery order
SameGroupOrder ==
    Prioritized =>
        \A i, j \in 1..Len(prioritized_files) :
            (i < j /\ GroupOf(i) = GroupOf(j)) =>
                IF GroupOf(i) = Len(Groups) + 1
                THEN StrLess(prioritized_files[i], prioritized_files[j])
                ELSE IF script = "summarize" /\ GroupOf(i) = 2
                THEN CriticalRank(prioritized_files[i]) <= CriticalRank(prioritized_files[j])
                ELSE FirstIndex(files_to_include, prioritized_files[i])
                         < FirstIndex(files_to_include, prioritized_files[j])

SameGroupOrderWitness ==
    /\ script = "summarize"
    /\ pc = "done"
    /\ files_to_include = <<"web/app.js", "cmd/main.go">>
    /\ entry_points.main_entry = <<"web/app.js", "cmd/main.go">>
    /\ prioritized_files = <<"web/app.js", "cmd/main.go">>

\* C23: the priority order of either script begins with the files whose
\* name is a main-entry name, in discovery order, and no file behind them
\* is a main-entry file that they lack
MainEntryFirst ==
    Prioritized =>
        LET mains == SelectSeq(files_to_include, IsMainName)
        IN  /\ Len(mains) <= Len(prioritized_files)
            /\ SubSeq(prioritized_files, 1, Len(mains)) = mains
            /\ entry_points.main_entry = mains
            /\ \A i \in (Len(mains) + 1)..Len(prioritized_files) :
                  ~IsMainName(prioritized_files[i])

MainEntryFirstWitness ==
    /\ script = "summarize"
    /\ pc = "done"
    /\ files_to_include = <<"start.sh", "web/app.js">>
    /\ entry_points.startup_scripts = <<"start.sh">>
    /\ prioritized_files = <<"web/app.js", "start.sh">>

\* C24: the entries of the priority order behind those of the groups are
\* the files of the filtered list that no group has placed, each once, in
\* ascending lexicographic order of their paths
LastGroupSortedRest ==
    Prioritized =>
        /\ Range(LastGroup) =
              Range(files_to_include) \
                  Range(SubSeq(prioritized_files, 1, PlacedCount))
        /\ \A i \in 1..(Len(LastGroup) - 1) : StrLess(LastGroup[i], LastGroup[i + 1])

LastGroupSortedRestWitness ==
    /\ script = "print_files"
    /\ pc = "done"
    /\ files_to_include = <<"README.md", "NOTES.TXT">>
    /\ PlacedCount = 0
    /\ prioritized_files = <<"NOTES.TXT", "README.md">>

\* the manifests whose open or parse raised an exception that the except
\* clause of their parser names
CaughtFailures ==
    {p \in DOMAIN manifest :
        /\ ReadError(p, manifest[p]) # ""
        /\ Raises(p, manifest) = ""}

\* C25: the record of a finished analysis is the one the same run gives
\* without the manifests whose parse failed with a caught exception: such a
\* manifest leaves every field as it was when its parser was called
CaughtFailureLeavesRecord ==
    Analyzed =>
        LET Went(f) == f \notin CaughtFailures
        IN  /\ dependency_analysis =
                  detect_project_patterns(files_to_include,
                      AnalyzeAll(NoAnalysis, SelectSeq(files_to_include, Went),
                                 manifest))
            /\ (\A p \in DOMAIN manifest : p \in CaughtFailures) =>
                  /\ dependency_analysis.package_managers = {}
                  /\ dependency_analysis.languages = {}
                  /\ dependency_analysis.frameworks = {}
                  /\ DOMAIN dependency_analysis.dependencies = {}
                  /\ \A i \in 1..Len(dependency_analysis.key_files) :
                        dependency_analysis.key_files[i] \notin
                            {basename(p) : p \in DOMAIN manifest}

CaughtFailureLeavesRecordWitness ==
    /\ script = "summarize"
    /\ pc = "done"
    /\ files_to_include = <<"package.json", "pom.xml">>
    /\ manifest["package.json"].error = ""
    /\ "react" \in DOMAIN manifest["package.json"].dependencies
    /\ manifest["pom.xml"].error = "ParseError"
    /\ dependency_analysis.package_managers = {"npm/yarn"}
    /\ dependency_analysis.key_files = <<"package.json">>

\* whether the directories of a path hold, one after the other, the
\* segments of a pattern that ends in a separator
SegmentChain(p, pat) ==
    LET segments == split(p, "/")
        dirs == SubSeq(segments, 1, Len(segments) - 1)
        chain == split(SubSeq(pat, 1, Len(pat) - 1), "/")
    IN  \E k \in 0..(Len(dirs) - Len(chain)) :
            SubSeq(dirs, k + 1, k + Len(chain)) = chain

\* the glob match of a name and a pattern with one *: the name begins with
\* what stands before the * and ends with what stands behind it
GlobOneStar(name, pat) ==
    LET star == find(pat, "*")
        before == SubSeq(pat, 1, star - 1)
        behind == SubSeq(pat, star + 1, Len(pat))
    IN  /\ Len(name) >= Len(before) + Len(behind)
        /\ StartsWith(name, before)
        /\ EndsWith(name, behind)

\* the three cases of the matching of a path and a .gitignore pattern
GitignoreCase(p, pat) ==
    IF Char(pat, Len(pat)) = "/" THEN SegmentChain(p, pat)
    ELSE IF find(pat, "*") # 0
    THEN IF find(pat, "/") = 0 THEN GlobOneStar(basename(p), pat)
         ELSE GlobOneStar(p, pat)
    ELSE IF find(pat, "/") = 0 THEN basename(p) = pat
    ELSE Contains(p, pat)

\* C26: of the files that pass the other checks, summarize.py leaves out
\* those that a pattern of the base directory's .gitignore matches under
\* the three cases and no other; a pattern that begins with ! is a pattern
\* like any other and brings no file back
GitignoreThreeCases ==
    (script = "summarize" /\ Prioritized) =>
        \A p \in PassPathChecks :
            (~InList(p, files_to_include)) <=>
                \E i \in 1..Len(DiscoveredPatterns) :
                    GitignoreCase(p, DiscoveredPatterns[i])

GitignoreThreeCasesWitness ==
    /\ script = "summarize"
    /\ pc = "done"
    /\ InList("*.sh", DiscoveredPatterns)
    /\ InList("!start.sh", DiscoveredPatterns)
    /\ InList("/routes/", DiscoveredPatterns)
    /\ tree = {"start.sh", "routes/config.json"}
    /\ files_to_include = <<"routes/config.json">>

\* whether two paths have the same basename, letter case apart
SameName(f, g) == lower(basename(f)) = lower(basename(g))

\* C27: the critical group holds at most one file per name of the ranked
\* list, the first one of the filtered list with that name; every other
\* file with a critical name is in the remaining-configuration group and
\* comes behind all critical files in the priority order
OneFilePerCriticalName ==
    (script = "summarize" /\ Prioritized) =>
        LET n == Len(entry_points.main_entry) + Len(critical_config)
        IN  /\ \A k \in 1..Len(critical_patterns) :
                  Cardinality({f \in Range(critical_config) :
                      lower(basename(f)) = critical_patterns_lower[k]}) <= 1
            /\ \A f \in Range(critical_config) :
                  \A i \in 1..(FirstIndex(files_to_include, f) - 1) :
                      ~SameName(files_to_include[i], f)
            /\ \A f \in Range(files_to_include) :
                  CriticalRank(f) > 0 =>
                      \E g \in Range(critical_config) : SameName(f, g)
            /\ \A f \in Range(files_to_include) \ Range(critical_config) :
                  CriticalRank(f) > 0 =>
                      /\ InList(f, other_config)
                      /\ FirstIndex(prioritized_files, f) > n
                      /\ FirstIndex(prioritized_files, f) <= n + Len(other_config)

OneFilePerCriticalNameWitness ==
    /\ script = "summarize"
    /\ pc = "done"
    /\ files_to_include = <<"package.json", "web/package.json">>
    /\ critical_config = <<"package.json">>
    /\ other_config = <<"web/package.json">>
    /\ prioritized_files = <<"package.json", "web/package.json">>

\* the five role lists of detect_entry_points
RoleLists ==
    << entry_points.main_entry, entry_points.config_entry,
       entry_points.startup_scripts, entry_points.api_routes,
       entry_points.other_important >>

\* C28: the sequence returned by the 6-group prioritize_files of
\* print_files.py holds every path of the filtered list exactly once, no
\* path being in two of the five role lists
SixGroupPermutation ==
    (script = "print_files" /\ Prioritized) =>
        /\ Len(prioritized_files) = Len(files_to_include)
        /\ \A p \in Range(files_to_include) : Count(prioritized_files, p) = 1
        /\ \A p \in Range(prioritized_files) : InList(p, files_to_include)
        /\ \A a, b \in 1..5 :
              a # b => Range(RoleLists[a]) \cap Range(RoleLists[b]) = {}

SixGroupPermutationWitness ==
    /\ script = "print_files"
    /\ pc = "done"
    /\ files_to_include = <<"src/util.py", "handlers/settings.py">>
    /\ IsConfigName("handlers/settings.py")
    /\ HasRouteWord("handlers/settings.py")
    /\ entry_points.config_entry = <<"handlers/settings.py">>
    /\ entry_points.api_routes = <<>>
    /\ prioritized_files = <<"handlers/settings.py", "src/util.py">>

\* the files of the tree that the checks other than the one against the
\* output file let through
PassOtherChecks ==
    {p \in tree :
        /\ InList(lower(splitext_ext(basename(p))), ALLOWED_EXTENSIONS)
        /\ lower(splitext_ext(basename(p))) \notin ignore_extensions
        /\ p \notin ignore_spec
        /\ script = "summarize" =>
              /\ ~should_auto_ignore(p)
              /\ ~matches_gitignore(p, gitignore_patterns)
        /\ script = "print_files" =>
              \A d \in Ancestors(p) \ {"."} : (d \o "/") \notin ignore_spec}

\* C29: with the report written to a file of the tree, the filtered list
\* holds the files that pass the other checks except the output file, and
\* never the output file
OutputFileNeverListed ==
    (Prioritized /\ output_file # "") =>
        /\ ~InList(output_file, files_to_include)
        /\ Range(files_to_include) = PassOtherChecks \ {output_file}

OutputFileNeverListedWitness ==
    /\ pc = "done"
    /\ output_file = "README.md"
    /\ output = "closed"
    /\ tree = {"README.md", "NOTES.TXT"}
    /\ "README.md" \in PassOtherChecks
    /\ files_to_include = <<"NOTES.TXT">>

\* the names of the manifests and build files that have no allowed
\* extension
IsUnlistedManifest(p) ==
    \/ lower(basename(p)) \in {"go.mod", "gemfile", "makefile", "dockerfile",
                               "packages.config"}
    \/ EndsWith(lower(p), ".csproj")

\* C30: in a run of either script on a tree that holds go.mod, Gemfile,
\* Makefile, Dockerfile, packages.config or a .csproj file, none of them
\* is ever in the filtered list or read by the analysis, and the record
\* never holds the package managers Go Modules, Bundler and NuGet or the
\* build tool Make
UnlistedManifestsNeverAnalyzed ==
    /\ \A i \in 1..Len(files_to_include) : ~IsUnlistedManifest(files_to_include[i])
    /\ \A i \in 1..Len(prioritized_files) : ~IsUnlistedManifest(prioritized_files[i])
    /\ \A p \in DOMAIN manifest : ~IsUnlistedManifest(p)
    /\ dependency_analysis.package_managers
          \cap {"Go Modules", "Bundler", "NuGet"} = {}
    /\ "Make" \notin dependency_analysis.build_tools

UnlistedManifestsNeverAnalyzedWitness ==
    /\ script = "summarize"
    /\ pc = "done"
    /\ tree = {"go.mod", "package.json"}
    /\ files_to_include = <<"package.json">>
    /\ manifest["package.json"].error = ""
    /\ dependency_analysis.package_managers = {"npm/yarn"}
====
